---- MODULE Spec2Model ----
(***************************************************************************)
(* A model of the deed-verification pipeline of hisab-islamic-app: the     *)
(* verdict classifiers, the provider fallback chain of the verification    *)
(* service, the serverless proxy handler and the dashboard that calls      *)
(* them.                                                                   *)
(*                                                                         *)
(* Text is modelled by TLA+ strings; String.prototype.includes, split and  *)
(* toLowerCase are computed character by character.  Arabic keywords are   *)
(* written letter by letter in the ASCII chat alphabet (7 for HAH), which  *)
(* keeps every containment between them as it is in Arabic script.         *)
(***************************************************************************)
EXTENDS Integers, Sequences, FiniteSets, TLC

VARIABLES
    query,        \* the deed text handed to the operation under way
    language,     \* "en" or "ar"
    answer,       \* classifier specification: the upstream answer text
    classifiedBy, \* classifier specification: which classifier has run
    verdict,      \* classifier specification: the verdict it produced
    apiKey,       \* import.meta.env.VITE_FANAR_API_KEY ("" when unset)
    isDevelopment, \* window.location.hostname === 'localhost'
    apiModule,    \* which lib/api the build holds: "chat" or "rag"
    deedText,     \* Dashboard state
    verificationResult, \* Dashboard state: <<>> (null) or <<result>>
    isVerifying,  \* Dashboard state
    toast,        \* the last toast shown ("" for none)
    entry,        \* who started the invocation under way ("none" when idle)
    pc,           \* where the invocation under way is waiting
    settled,      \* "pending", "resolved" or "rejected"
    result,       \* <<>> or <<the value the invocation resolved to>>
    calls,        \* the requests sent by this invocation, in order
    failed,       \* those of them that ended in a failure, in order
    inFlight,     \* the requests sent and not yet answered
    handlerLocals, \* the proxy handler's locals across its awaits
    response,     \* <<>> or <<the proxy handler's HTTP response>>
    verifications, \* how many invocations have been started
    upstreamReferences, \* formatter specification: the upstream reference list
    evidenceOut,  \* formatter specification: the evidence list produced
    summaryOut,   \* formatter specification: <<>> or <<the summary produced>>
    producedBy,   \* formatter specification: which code produced them
    signedIn,     \* counter specification: user && db are both there
    hookVariant,  \* counter specification: "offline" or "revert" useSinCounter
    clock,        \* counter specification: the calendar day it is
    today,        \* useSinCounter: the day the last render computed
    count,        \* useSinCounter state
    loading,      \* useSinCounter state
    pendingSync,  \* useSinCounter state (offline hook)
    localStorage, \* day -> the item sin-count-<uid>-<day> ("" for none)
    dailyCounts,  \* day -> <<>> or <<count of the stored document>>
    loads,        \* the getDoc reads under way, by day
    writes,       \* the setDoc writes under way, oldest first
    counterCalls, \* how many calls of the hook's functions were made
    runningSum,   \* history: the sum of the calls made this day, floor 0
    freshDay,     \* history: the day began without document and item
    writeFailed,  \* history: some write was rejected
    lastCall,     \* history: the last function of the hook called
    trendVariant, \* trend specification: "fetch" or "listener" useTrendData
    trendUser,    \* trend specification: a user is signed in
    dbReady,      \* trend specification: the Firestore handle is there
    period,       \* useTrendData: the period of the last render
    nowDay,       \* trend specification: the calendar day it is (a day number)
    history,      \* the documents of users/<uid>/dailyCounts
    trendData,    \* useTrendData state: data
    trendLoading, \* useTrendData state: loading
    trendError,   \* useTrendData state: error ("" for null)
    fetches,      \* the reads and listeners started and not ended
    selections,   \* how many times the period was changed
    answered,     \* history: <<>> or <<the request trendData answers>>
    request,      \* rules specification: the Firestore request evaluated
    decision,     \* rules specification: "none", "allow" or "deny"
    workerVariant, \* worker specification: "sw" (sw.js) or "config" (config.js)
    cacheStorage, \* the entries of the cache hisabdaily-v1
    events,       \* the fetch events the service worker has not answered
    served,       \* history: the responses the pages received, in order
    eventCount,   \* how many fetch events were raised
    online,       \* sync specification: Firestore can be reached
    outages,      \* sync specification: how often the connection was lost
    listensOnline, \* sync specification: the Dashboard listens to 'online'
    changedOffline, \* history: the count was changed since the connection was lost
    waitVariant,  \* wait specification: "firebase.ts", "part_010" or "part_011"
    hostname,     \* window.location.hostname
    devBuild,     \* import.meta.env.DEV
    runtimeConfig, \* window.__FIREBASE_CONFIG__: "absent", "empty" or "complete"
    attempts,     \* the attempts counter of waitForRuntimeConfig
    waitState,    \* "called", "scheduled" or "resolved"
    polls,        \* history: how many 50 ms timeouts were set, up to MaxPolls
    firebaseVariant, \* firebase specification: "firebase.ts" or "part_010"
    envConfig,    \* what getEnvVar finds: "valid" or "invalid"
    app,          \* 0 for null, else the attempt that called initializeApp
    auth,         \* 0 for null, else the attempt that called getAuth
    db,           \* 0 for null, else the attempt that called getFirestore
    initializationPromise, \* 0 for null, else the promise of that attempt
    running,      \* the attempts under way, each at "waiting" or "persisting"
    promises,     \* per attempt: state, and the pair it resolved with
    awaiting,     \* per call not yet answered: the promise it awaits
    received,     \* history: what the callers received, in order
    initLog       \* history: the attempts that called initializeApp

classifierVars == <<answer, classifiedBy, verdict>>
configVars == <<apiKey, isDevelopment, apiModule>>
dashboardVars == <<deedText, verificationResult, isVerifying, toast>>
callVars == <<entry, pc, settled, result, calls, failed, inFlight, handlerLocals,
              response, verifications>>
formatterVars == <<upstreamReferences, evidenceOut, summaryOut, producedBy>>
counterVars == <<signedIn, hookVariant, clock, today, count, loading, pendingSync,
                 localStorage, dailyCounts, loads, writes, counterCalls, runningSum,
                 freshDay, writeFailed, lastCall>>
trendVars == <<trendVariant, trendUser, dbReady, period, nowDay, history, trendData,
               trendLoading, trendError, fetches, selections, answered>>
rulesVars == <<request, decision>>
workerVars == <<workerVariant, cacheStorage, events, served, eventCount>>
networkVars == <<online, outages, listensOnline, changedOffline>>
waitVars == <<waitVariant, hostname, devBuild, runtimeConfig, attempts, waitState, polls>>
firebaseVars == <<firebaseVariant, envConfig, app, auth, db, initializationPromise, running,
                  promises, awaiting, received, initLog>>
platformVars == <<rulesVars, workerVars, networkVars, waitVars, firebaseVars>>
componentVars == <<formatterVars, counterVars, trendVars, platformVars>>
vars == <<query, language, classifierVars, configVars, dashboardVars, callVars,
          componentVars>>

(***************************************************************************)
(* Bounds of the model.                                                    *)
(***************************************************************************)
\* the longest answer text, in fragments of AnswerFragments
MaxFragments == 2
\* how many verifications one behaviour starts
MaxVerifications == 1
\* the longest upstream reference list handed to a formatter
MaxReferences == 3
\* the calls of the counter's functions in one run
MaxCalls == 4
\* the calendar days of one run are 1..MaxDay
MaxDay == 2
\* the changes of the trend period in one run
MaxSelections == 1
\* the fetch events of one run of the service worker
MaxEvents == 3
\* how often the connection to Firestore is lost
MaxOutages == 1
\* the timeouts counted of a wait that sets them without end
MaxPolls == 101
\* the calls of initializeFirebase in one behaviour
MaxInitCalls == 3

(***************************************************************************)
(* JavaScript string primitives.                                           *)
(***************************************************************************)
\* String.prototype.includes
Includes(s, p) ==
    \E i \in 1..(Len(s) - Len(p) + 1) : SubSeq(s, i, i + Len(p) - 1) = p

LowerChar(c) ==
    CASE c = "A" -> "a" [] c = "B" -> "b" [] c = "C" -> "c" [] c = "D" -> "d"
      [] c = "E" -> "e" [] c = "F" -> "f" [] c = "G" -> "g" [] c = "H" -> "h"
      [] c = "I" -> "i" [] c = "J" -> "j" [] c = "K" -> "k" [] c = "L" -> "l"
      [] c = "M" -> "m" [] c = "N" -> "n" [] c = "O" -> "o" [] c = "P" -> "p"
      [] c = "Q" -> "q" [] c = "R" -> "r" [] c = "S" -> "s" [] c = "T" -> "t"
      [] c = "U" -> "u" [] c = "V" -> "v" [] c = "W" -> "w" [] c = "X" -> "x"
      [] c = "Y" -> "y" [] c = "Z" -> "z" [] OTHER -> c

RECURSIVE ToLowerCase(_)
\* String.prototype.toLowerCase
ToLowerCase(s) ==
    IF Len(s) = 0 THEN ""
    ELSE IF Len(s) = 1 THEN LowerChar(s)
    ELSE ToLowerCase(SubSeq(s, 1, Len(s) \div 2))
         \o ToLowerCase(SubSeq(s, Len(s) \div 2 + 1, Len(s)))

\* the position of the first c in s at or after i, 0 when there is none
IndexFrom(s, c, i) ==
    IF \E j \in i..Len(s) : SubSeq(s, j, j) = c
    THEN CHOOSE j \in i..Len(s) :
             /\ SubSeq(s, j, j) = c
             /\ \A k \in i..(j - 1) : SubSeq(s, k, k) # c
    ELSE 0

RECURSIVE SplitFrom(_, _, _)
SplitFrom(s, start, i) ==
    IF IndexFrom(s, " ", i) = 0 THEN <<SubSeq(s, start, Len(s))>>
    ELSE <<SubSeq(s, start, IndexFrom(s, " ", i) - 1)>>
         \o SplitFrom(s, IndexFrom(s, " ", i) + 1, IndexFrom(s, " ", i) + 1)

\* String.prototype.split(' '): the pieces between single spaces, empty ones kept
SplitSpace(s) == SplitFrom(s, 1, 1)

\* Array.prototype.some over a list of phrases
IncludesAny(text, phrases) == \E i \in 1..Len(phrases) : Includes(text, phrases[i])

\* Array.prototype.filter(...).length over a list of phrases
CountIncluded(text, phrases) ==
    Cardinality({i \in 1..Len(phrases) : Includes(text, phrases[i])})

(***************************************************************************)
(* The verdict classifier of the Reminder.dev path (client and proxy).     *)
(***************************************************************************)
clearlyPermissible ==
    << "is permissible", "is halal", "is allowed", "is encouraged",
       "is recommended", "is mustahabb", "is mandated", "is obligatory",
       "allah encourages", "allah commands", "highly encouraged" >>

clearlyForbidden ==
    << "is forbidden", "is haram", "is prohibited", "not allowed", "must not",
       "allah forbids", "strictly forbidden" >>

uncertaintyIndicators ==
    << "debated", "scholars differ", "depends on", "varies", "controversial",
       "some scholars", "different opinions", "context matters", "disputed",
       "disagreement", "conditions apply" >>

permissibleCount(ans) == CountIncluded(ans, clearlyPermissible)
forbiddenCount(ans) == CountIncluded(ans, clearlyForbidden)
uncertaintyCount(ans) == CountIncluded(ans, uncertaintyIndicators)

\* queryWords.some((word) => word.length > 3 && answer.includes(word))
responseMatchesQuery(q, ans) ==
    LET queryWords == SplitSpace(ToLowerCase(q))
    IN  \E i \in 1..Len(queryWords) :
            Len(queryWords[i]) > 3 /\ Includes(ans, queryWords[i])

\* lines 166-181: the if / else-if chain that sets verdict (default 'sin')
DetermineVerdictBeforeUncertainty(q, ans) ==
    IF permissibleCount(ans) > forbiddenCount(ans) /\ permissibleCount(ans) > 0
    THEN (IF responseMatchesQuery(q, ans) THEN "not_sin" ELSE "sin")
    ELSE IF uncertaintyCount(ans) > 0 THEN "contradictory" ELSE "sin"

DetermineVerdictTieIsPermissible(q, ans) ==
    IF uncertaintyCount(ans) > 0 THEN "contradictory"
    ELSE IF permissibleCount(ans) >= forbiddenCount(ans) /\ permissibleCount(ans) > 0
         THEN (IF responseMatchesQuery(q, ans) THEN "not_sin" ELSE "sin")
         ELSE "sin"

DetermineVerdict(q, ans) ==
    IF uncertaintyCount(ans) > 0 THEN "contradictory"
    ELSE IF permissibleCount(ans) > forbiddenCount(ans) /\ permissibleCount(ans) > 0
         THEN (IF responseMatchesQuery(q, ans) THEN "not_sin" ELSE "sin")
         ELSE IF forbiddenCount(ans) > 0 THEN "sin"
              ELSE "sin"

\* verifyDeedWithReminderDev: answer = reminderData.answer.toLowerCase()
ReminderDevVerdict(q, rawAnswer) == DetermineVerdict(q, ToLowerCase(rawAnswer))

\* the proxy handler keeps its own copy of the three lists and of the chain
handlerPermissibleCount(ans) == CountIncluded(ans, clearlyPermissible)
handlerForbiddenCount(ans) == CountIncluded(ans, clearlyForbidden)
handlerUncertaintyCount(ans) == CountIncluded(ans, uncertaintyIndicators)

handlerResponseMatchesQuery(q, ans) ==
    LET queryWords == SplitSpace(ToLowerCase(q))
    IN  \E i \in 1..Len(queryWords) :
            Len(queryWords[i]) > 3 /\ Includes(ans, queryWords[i])

HandlerDetermineVerdictDefaultUnclear(q, ans) ==
    IF handlerUncertaintyCount(ans) > 0 THEN "contradictory"
    ELSE IF handlerPermissibleCount(ans) > handlerForbiddenCount(ans)
            /\ handlerPermissibleCount(ans) > 0
         THEN (IF handlerResponseMatchesQuery(q, ans) THEN "not_sin" ELSE "sin")
         ELSE IF handlerForbiddenCount(ans) > 0 THEN "sin"
              ELSE "contradictory"

HandlerDetermineVerdictForbiddenVetoes(q, ans) ==
    IF handlerUncertaintyCount(ans) > 0 THEN "contradictory"
    ELSE IF handlerForbiddenCount(ans) = 0 /\ handlerPermissibleCount(ans) > 0
         THEN (IF handlerResponseMatchesQuery(q, ans) THEN "not_sin" ELSE "sin")
         ELSE "sin"

HandlerDetermineVerdict(q, ans) ==
    IF handlerUncertaintyCount(ans) > 0 THEN "contradictory"
    ELSE IF handlerPermissibleCount(ans) > handlerForbiddenCount(ans)
            /\ handlerPermissibleCount(ans) > 0
         THEN (IF handlerResponseMatchesQuery(q, ans) THEN "not_sin" ELSE "sin")
         ELSE IF handlerForbiddenCount(ans) > 0 THEN "sin"
              ELSE "sin"

\* handler: answer = data.answer.toLowerCase()
HandlerVerdict(q, rawAnswer) == HandlerDetermineVerdict(q, ToLowerCase(rawAnswer))

(***************************************************************************)
(* The verdict scan of the Fanar path (verifyDeed of the chat variant).    *)
(***************************************************************************)
fanarArabicForbidden == << "7ram", "m7rm" >>
fanarArabicPermissible == << "7lal", "mba7", "mst7b", "mndwb" >>
fanarForbidden == << "haram", "forbidden", "prohibited", "not permissible" >>
fanarPermissible ==
    << "halal", "permissible", "allowed", "encouraged", "recommended",
       "virtuous", "good deed", "charity", "donation" >>

\* content = assistantMessage.content.toLowerCase(); verdict starts 'contradictory'
FanarVerdict(rawContent, lang) ==
    LET content == ToLowerCase(rawContent)
    IN  IF lang = "ar"
        THEN IF IncludesAny(content, fanarArabicForbidden) THEN "sin"
             ELSE IF IncludesAny(content, fanarArabicPermissible) THEN "not_sin"
                  ELSE "contradictory"
        ELSE IF IncludesAny(content, fanarForbidden) THEN "sin"
             ELSE IF IncludesAny(content, fanarPermissible) THEN "not_sin"
                  ELSE IF Includes(content, "sin") /\ ~Includes(content, "not_sin")
                       THEN "sin"
                       ELSE "contradictory"

(***************************************************************************)
(* More string primitives, used by the summary extractors.                 *)
(***************************************************************************)
Min(a, b) == IF a < b THEN a ELSE b

\* String.prototype.substring(0, n)
Substring0(s, n) == SubSeq(s, 1, Min(n, Len(s)))

\* String.prototype.slice(1) and charAt(0)
Slice1(s) == SubSeq(s, 2, Len(s))
CharAt0(s) == SubSeq(s, 1, Min(1, Len(s)))

UpperChar(c) ==
    CASE c = "a" -> "A" [] c = "b" -> "B" [] c = "c" -> "C" [] c = "d" -> "D"
      [] c = "e" -> "E" [] c = "f" -> "F" [] c = "g" -> "G" [] c = "h" -> "H"
      [] c = "i" -> "I" [] c = "j" -> "J" [] c = "k" -> "K" [] c = "l" -> "L"
      [] c = "m" -> "M" [] c = "n" -> "N" [] c = "o" -> "O" [] c = "p" -> "P"
      [] c = "q" -> "Q" [] c = "r" -> "R" [] c = "s" -> "S" [] c = "t" -> "T"
      [] c = "u" -> "U" [] c = "v" -> "V" [] c = "w" -> "W" [] c = "x" -> "X"
      [] c = "y" -> "Y" [] c = "z" -> "Z" [] OTHER -> c

RECURSIVE TrimStart(_)
TrimStart(s) ==
    IF Len(s) > 0 /\ SubSeq(s, 1, 1) = " " THEN TrimStart(SubSeq(s, 2, Len(s))) ELSE s

RECURSIVE TrimEnd(_)
TrimEnd(s) ==
    IF Len(s) > 0 /\ SubSeq(s, Len(s), Len(s)) = " "
    THEN TrimEnd(SubSeq(s, 1, Len(s) - 1)) ELSE s

\* String.prototype.trim (the only white space of the modelled texts is " ")
Trim(s) == TrimEnd(TrimStart(s))

\* replace(/<[^>]*>/g, ''): every "<" up to the next ">" is dropped
RECURSIVE StripTagsFrom(_, _)
StripTagsFrom(s, i) ==
    LET open == IndexFrom(s, "<", i)
        close == IF open = 0 THEN 0 ELSE IndexFrom(s, ">", open + 1)
    IN  IF close = 0 THEN SubSeq(s, i, Len(s))
        ELSE SubSeq(s, i, open - 1) \o StripTagsFrom(s, close + 1)

StripTags(s) == StripTagsFrom(s, 1)

\* replace(/&[^;]+;/g, ''): "&", at least one character that is not ";", then ";"
RECURSIVE StripEntitiesFrom(_, _)
StripEntitiesFrom(s, i) ==
    LET amp == IndexFrom(s, "&", i)
        semi == IF amp = 0 THEN 0 ELSE IndexFrom(s, ";", amp + 1)
    IN  IF semi = 0 THEN SubSeq(s, i, Len(s))
        ELSE IF semi > amp + 1
             THEN SubSeq(s, i, amp - 1) \o StripEntitiesFrom(s, semi + 1)
             ELSE SubSeq(s, i, amp) \o StripEntitiesFrom(s, amp + 1)

StripEntities(s) == StripEntitiesFrom(s, 1)

IsSentenceEnd(c) == c \in {".", "!", "?"}

RECURSIVE SkipSentenceEnds(_, _)
SkipSentenceEnds(s, i) ==
    IF i <= Len(s) /\ IsSentenceEnd(SubSeq(s, i, i)) THEN SkipSentenceEnds(s, i + 1) ELSE i

\* String.prototype.split(/[.!?]+/)
RECURSIVE SplitSentencesFrom(_, _, _)
SplitSentencesFrom(s, start, i) ==
    LET end == IF \E j \in i..Len(s) : IsSentenceEnd(SubSeq(s, j, j))
               THEN CHOOSE j \in i..Len(s) :
                        /\ IsSentenceEnd(SubSeq(s, j, j))
                        /\ \A k \in i..(j - 1) : ~IsSentenceEnd(SubSeq(s, k, k))
               ELSE 0
    IN  IF end = 0 THEN <<SubSeq(s, start, Len(s))>>
        ELSE <<SubSeq(s, start, end - 1)>>
             \o SplitSentencesFrom(s, SkipSentenceEnds(s, end), SkipSentenceEnds(s, end))

SplitSentences(s) == SplitSentencesFrom(s, 1, 1)

\* .filter((s) => s.trim().length > n)
RECURSIVE LongerThan(_, _)
LongerThan(ss, n) ==
    IF ss = <<>> THEN <<>>
    ELSE IF Len(Trim(Head(ss))) > n THEN <<Head(ss)>> \o LongerThan(Tail(ss), n)
         ELSE LongerThan(Tail(ss), n)

\* the for loop with break: the first of the first n sentences whose trimmed,
\* lower-cased text holds one of terms, or fallback when there is none
RECURSIVE FirstWithTerm(_, _, _, _)
FirstWithTerm(ss, n, terms, fallback) ==
    IF ss = <<>> \/ n = 0 THEN fallback
    ELSE IF IncludesAny(ToLowerCase(Trim(Head(ss))), terms) THEN Trim(Head(ss))
         ELSE FirstWithTerm(Tail(ss), n - 1, terms, fallback)

(***************************************************************************)
(* The summary extractors.                                                 *)
(***************************************************************************)
summaryMaxLength == 120
summaryKeptLength == 117
verdictTerms ==
    << "permissible", "forbidden", "haram", "halal", "allowed", "prohibited" >>

\* summarizeReminderDevResponse(htmlAnswer, verdict)
summarizeReminderDevResponse(htmlAnswer, v) ==
    LET cleanText == Trim(StripEntities(StripTags(htmlAnswer)))
        sentences == LongerThan(SplitSentences(cleanText), 5)
        coreSentence == FirstWithTerm(sentences, 4, verdictTerms, Trim(Head(sentences)))
        clarified ==
            IF v = "sin" /\ (Includes(coreSentence, "debated")
                             \/ Includes(coreSentence, "scholars differ"))
            THEN coreSentence
                 \o " Due to scholarly disagreement, it is safer to avoid this practice."
            ELSE coreSentence
    IN  IF Len(sentences) = 0 THEN Substring0(cleanText, summaryMaxLength) \o "..."
        ELSE IF Len(clarified) > summaryMaxLength
             THEN Substring0(clarified, summaryKeptLength) \o "..."
             ELSE clarified

handlerSummaryMaxLength == 200
handlerSummaryMaxWords == 30
handlerVerdictTerms ==
    << "permissible", "forbidden", "haram", "halal", "allowed", "prohibited",
       "encouraged", "recommended" >>

RECURSIVE JoinSpace(_)
\* Array.prototype.join(' ')
JoinSpace(ws) ==
    IF ws = <<>> THEN ""
    ELSE IF Len(ws) = 1 THEN Head(ws) ELSE Head(ws) \o " " \o JoinSpace(Tail(ws))

\* handler: "Create accurate summary that matches the verdict"
HandlerSummary(q, rawAnswer, v) ==
    LET cleanAnswer == Trim(StripEntities(StripTags(rawAnswer)))
        sentences == LongerThan(SplitSentences(cleanAnswer), 10)
        bestSentence ==
            FirstWithTerm(sentences, 5, handlerVerdictTerms, Trim(Head(sentences)))
        aligned ==
            IF v = "contradictory"
            THEN UpperChar(CharAt0(q)) \o Slice1(q)
                 \o " is debated among Islamic scholars with different opinions."
            ELSE IF v = "not_sin" /\ ~Includes(ToLowerCase(bestSentence), "permissible")
                    /\ ~Includes(ToLowerCase(bestSentence), "allowed")
                 THEN bestSentence \o " This is generally considered permissible in Islam."
                 ELSE IF v = "sin" /\ ~Includes(ToLowerCase(bestSentence), "forbidden")
                         /\ ~Includes(ToLowerCase(bestSentence), "prohibited")
                      THEN bestSentence
                           \o " This should be avoided according to Islamic guidance."
                      ELSE bestSentence
        summary == IF Len(sentences) > 0 THEN aligned ELSE cleanAnswer
    IN  IF Len(summary) > handlerSummaryMaxLength
        THEN JoinSpace(SubSeq(SplitSpace(summary), 1,
                              Min(handlerSummaryMaxWords, Len(SplitSpace(summary)))))
             \o "."
        ELSE summary

(***************************************************************************)
(* The evidence formatters.  A reference is a record of strings: text and  *)
(* the metadata fields the code reads; "" stands for an absent field (the  *)
(* code tests every one of them for truthiness only).                      *)
(***************************************************************************)
\* query.toLowerCase().split(' ').filter((word) => word.length > 2)
RECURSIVE WordsLongerThan(_, _)
WordsLongerThan(ws, n) ==
    IF ws = <<>> THEN <<>>
    ELSE IF Len(Head(ws)) > n THEN <<Head(ws)>> \o WordsLongerThan(Tail(ws), n)
         ELSE WordsLongerThan(Tail(ws), n)

queryKeywords(q) == WordsLongerThan(SplitSpace(ToLowerCase(q)), 2)

Or(a, b) == IF a # "" THEN a ELSE b

\* the source label built from the metadata
CitationLabel(ref) ==
    IF ref.source = "quran"
    THEN IF Or(ref.chapter, ref.surah) # "" /\ Or(ref.verse, ref.ayah) # ""
         THEN "Quran " \o Or(ref.chapter, ref.surah) \o ":" \o Or(ref.verse, ref.ayah)
              \o (IF Or(ref.name, ref.surah_name) # ""
                  THEN " (Surah " \o Or(ref.name, ref.surah_name) \o ")" ELSE "")
         ELSE "Quran"
    ELSE IF ref.source = "bukhari" \/ ref.collection = "bukhari"
    THEN "Sahih Bukhari"
         \o (IF ref.book_number # "" /\ ref.hadith_number # ""
             THEN " Book " \o ref.book_number \o ", Hadith " \o ref.hadith_number
             ELSE IF ref.reference # "" THEN " " \o ref.reference ELSE "")
    ELSE IF ref.source = "muslim" \/ ref.collection = "muslim"
    THEN "Sahih Muslim"
         \o (IF ref.book_number # "" /\ ref.hadith_number # ""
             THEN " Book " \o ref.book_number \o ", Hadith " \o ref.hadith_number
             ELSE "")
    ELSE IF ref.source # ""
    THEN UpperChar(CharAt0(ref.source)) \o Slice1(ref.source)
         \o (IF Or(ref.reference, ref.citation) # ""
             THEN " " \o Or(ref.reference, ref.citation) ELSE "")
    ELSE "Islamic Source"

\* queryKeywords.some(keyword => refText.includes(keyword) || context includes keyword)
IsRelevant(ref, keywords) ==
    \E i \in 1..Len(keywords) :
        \/ Includes(ToLowerCase(ref.text), keywords[i])
        \/ (ref.context # "" /\ Includes(ToLowerCase(ref.context), keywords[i]))

RECURSIVE RelevantReferences(_, _)
\* the client's filter keeps a reference without text, and all when there are no keywords
RelevantReferences(refs, keywords) ==
    IF refs = <<>> THEN <<>>
    ELSE IF Head(refs).text = "" \/ Len(keywords) = 0 \/ IsRelevant(Head(refs), keywords)
         THEN <<Head(refs)>> \o RelevantReferences(Tail(refs), keywords)
         ELSE RelevantReferences(Tail(refs), keywords)

IsPrioritySource(ref) ==
    LET source == Or(ref.source, ref.collection)
    IN  \/ source = "quran" \/ source = "bukhari" \/ source = "muslim"
        \/ Includes(source, "hadith") \/ Includes(source, "quran")

RECURSIVE PrioritySources(_)
PrioritySources(refs) ==
    IF refs = <<>> THEN <<>>
    ELSE IF IsPrioritySource(Head(refs)) THEN <<Head(refs)>> \o PrioritySources(Tail(refs))
         ELSE PrioritySources(Tail(refs))

SliceNone(xs) == xs

\* Array.prototype.slice(0, 2)
Slice02(xs) == SubSeq(xs, 1, Min(2, Len(xs)))

snippetMaxLength == 180
snippetKeptLength == 177

ClientSnippetCutBare(text) ==
    IF Len(text) > snippetMaxLength THEN Substring0(text, snippetKeptLength) ELSE text

ClientSnippet(text) ==
    IF Len(text) > snippetMaxLength THEN Substring0(text, snippetKeptLength) \o "..."
    ELSE text

\* formatReminderDevEvidence(references, queryKeywords)
formatReminderDevEvidence(references, keywords) ==
    LET relevantReferences == RelevantReferences(references, keywords)
        prioritySources == Slice02(PrioritySources(relevantReferences))
        finalReferences ==
            IF Len(prioritySources) > 0 THEN prioritySources
            ELSE Slice02(relevantReferences)
    IN  [i \in 1..Len(finalReferences) |->
            [source |-> CitationLabel(finalReferences[i]),
             snippet |-> ClientSnippet(finalReferences[i].text)]]

\* the handler's copy of the label code
HandlerCitationLabel(ref) == CitationLabel(ref)

RECURSIVE HandlerRelevantReferences(_, _)
\* the handler's filter drops a reference without text
HandlerRelevantReferences(refs, keywords) ==
    IF refs = <<>> THEN <<>>
    ELSE IF Head(refs).text # "" /\ IsRelevant(Head(refs), keywords)
         THEN <<Head(refs)>> \o HandlerRelevantReferences(Tail(refs), keywords)
         ELSE HandlerRelevantReferences(Tail(refs), keywords)

handlerSnippetMaxLength == 300
handlerSnippetCut == 280
handlerSnippetMinBreak == 200

\* String.prototype.lastIndexOf('.'), counted from 0; -1 when there is none
LastIndexOfDot(s, i) ==
    IF \E j \in 1..i : SubSeq(s, j, j) = "."
    THEN (CHOOSE j \in 1..i :
              /\ SubSeq(s, j, j) = "."
              /\ \A k \in (j + 1)..i : SubSeq(s, k, k) # ".") - 1
    ELSE -1

HandlerSnippet(text) ==
    LET head == Substring0(text, handlerSnippetCut)
        breakPoint == LastIndexOfDot(head, Len(head))
    IN  IF Len(text) > handlerSnippetMaxLength
        THEN IF breakPoint > handlerSnippetMinBreak
             THEN Substring0(text, breakPoint + 1)
             ELSE head \o "..."
        ELSE text

\* handler: formattedEvidence
HandlerFormattedEvidence(references, keywords) ==
    LET kept == Slice02(HandlerRelevantReferences(references, keywords))
    IN  [i \in 1..Len(kept) |->
            [source |-> HandlerCitationLabel(kept[i]),
             snippet |-> HandlerSnippet(kept[i].text)]]

\* `${x}` of an absent field
Interpolated(x) == IF x = "" THEN "undefined" ELSE x

\* src/lib/reminderDev.ts: the label of a Quran or Bukhari reference
LibCitationLabel(ref) ==
    IF ref.source = "quran"
    THEN "Quran " \o Interpolated(ref.chapter) \o ":" \o Interpolated(ref.verse)
         \o (IF ref.name # "" THEN " (" \o ref.name \o ")" ELSE "")
    ELSE "Sahih Bukhari"
         \o (IF ref.volume # "" /\ ref.book # ""
             THEN " - " \o ref.volume \o ", " \o ref.book ELSE "")

RECURSIVE LibPrioritySources(_)
LibPrioritySources(refs) ==
    IF refs = <<>> THEN <<>>
    ELSE IF Head(refs).source = "quran" \/ Head(refs).source = "bukhari"
         THEN <<Head(refs)>> \o LibPrioritySources(Tail(refs))
         ELSE LibPrioritySources(Tail(refs))

\* Array.prototype.slice(0, 3)
Slice03(xs) == SubSeq(xs, 1, Min(3, Len(xs)))

\* src/lib/reminderDev.ts: formatReminderDevEvidence(references); the snippet
\* is the complete text
LibFormatReminderDevEvidence(refs) ==
    LET prioritySources == Slice03(LibPrioritySources(refs))
    IN  [i \in 1..Len(prioritySources) |->
            [source |-> LibCitationLabel(prioritySources[i]),
             snippet |-> prioritySources[i].text]]

(***************************************************************************)
(* Results.  A VerificationResult is a record; an optional field is a      *)
(* sequence of no or one value.                                            *)
(***************************************************************************)
Evidence(source, snippet) == [source |-> source, snippet |-> snippet]

Result(v, evidence, summary) ==
    [verdict |-> v, evidence |-> evidence, summary |-> summary,
     reasoning |-> <<>>, brief_verdict |-> <<>>]

ReminderDevFallbackAsUnavailable(q) ==
    Result("sin",
           << Evidence("API Services Unavailable",
                       "External API services are temporarily unavailable. Please try again later.") >>,
           << "Unable to verify \"" \o q \o "\"." >>)

\* the catch block of verifyDeedWithReminderDev
ReminderDevFallback(q) ==
    Result("sin",
           << Evidence("Islamic Guidance",
                       "For guidance on \"" \o q \o "\", please consult with a qualified Islamic scholar or refer to authentic Islamic sources such as the Quran and Hadith.") >>,
           << "Unable to provide specific guidance on \"" \o q
              \o "\". Please consult authentic Islamic sources." >>)

\* verifyDeedWithReminderDev, from the parsed answer to the returned object
ReminderDevResult(q, data) ==
    LET v == ReminderDevVerdict(q, data.answer)
        formattedEvidence == formatReminderDevEvidence(data.references, queryKeywords(q))
        summary == summarizeReminderDevResponse(data.answer, v)
    IN  Result(v,
               IF Len(formattedEvidence) > 0 THEN formattedEvidence
               ELSE << Evidence("Islamic Analysis", summary) >>,
               << summary >>)

\* the catch block of the handler; body.query is "" when the request has none
HandlerFallback(bodyQuery) ==
    Result("sin",
           << Evidence("Islamic Guidance",
                       "For guidance on \"" \o Or(bodyQuery, "this matter")
                       \o "\", please consult with a qualified Islamic scholar or refer to authentic Islamic sources such as the Quran and Hadith.") >>,
           << "Unable to provide specific guidance. Please consult authentic Islamic sources." >>)

\* handler: finalEvidence
HandlerFinalEvidence(q, references) ==
    LET formattedEvidence == HandlerFormattedEvidence(references, queryKeywords(q))
    IN  IF Len(formattedEvidence) > 0 THEN formattedEvidence
        ELSE << Evidence("Islamic Guidance",
                         "The ruling on \"" \o q
                         \o "\" requires careful consideration of Islamic sources. Please consult with a qualified Islamic scholar for specific guidance.") >>

\* crossVerifyQuranReferences, once the verse has been fetched: verse is
\* [surah, numberInSurah, englishName, text]
CrossVerified(primaryEvidence, verse) ==
    LET isDuplicate ==
            \E i \in 1..Len(primaryEvidence) :
                /\ Includes(primaryEvidence[i].source, "Quran")
                /\ Includes(primaryEvidence[i].source,
                            verse.surah \o ":" \o verse.numberInSurah)
    IN  IF isDuplicate THEN primaryEvidence
        ELSE Append(primaryEvidence,
                    Evidence("Quran " \o verse.surah \o ":" \o verse.numberInSurah
                             \o " (" \o verse.englishName \o ")", verse.text))

\* extractBriefVerdict(_content, verdict, language)
extractBriefVerdict(v, lang) ==
    IF lang = "ar"
    THEN (IF v = "sin" THEN "h*a alf3l m7rm fy al2slam"
          ELSE IF v = "not_sin" THEN "h*a alf3l mba7 fy al2slam"
          ELSE "al7km gyr wa97 - y7taj mraj3t")
    ELSE (IF v = "sin" THEN "This action is forbidden (haram) in Islam"
          ELSE IF v = "not_sin" THEN "This action is permissible (halal) in Islam"
          ELSE "The ruling is unclear - requires further review")

RECURSIVE FirstSentenceWith(_, _)
\* sentences.find(sentence => words.some(word => sentence.toLowerCase().includes(word)))
FirstSentenceWith(ss, words) ==
    IF ss = <<>> THEN <<>>
    ELSE IF IncludesAny(ToLowerCase(Head(ss)), words) THEN <<Head(ss)>>
         ELSE FirstSentenceWith(Tail(ss), words)

\* extractReasoning(content, language)
extractReasoning(content, lang) ==
    LET sentences == LongerThan(SplitSentences(content), 10)
        basedOn == IF lang = "ar" THEN "bna2 3la alt3alym al2slamyt"
                   ELSE "Based on Islamic teachings"
        explanatoryWords ==
            IF lang = "ar" THEN << "l2n", "bsbb", "7yth", "2*", "n6ra", "wfqa" >>
            ELSE << "because", "since", "as", "due to", "according to", "based on" >>
        explanatorySentence == FirstSentenceWith(sentences, explanatoryWords)
        substantial == LongerThan(sentences, 30)
    IN  IF Len(sentences) = 0 THEN basedOn
        ELSE IF explanatorySentence # <<>> THEN Trim(explanatorySentence[1])
        ELSE IF substantial # <<>> /\ Trim(substantial[1]) # "" THEN Trim(substantial[1])
        ELSE basedOn

\* a reference of the Fanar answer is [source, content, number]
RECURSIVE FanarChatEvidence(_)
FanarChatEvidence(refs) ==
    IF refs = <<>> THEN <<>>
    ELSE << Evidence(Or(Head(refs).source, "Islamic Sources"), Head(refs).content) >>
         \o FanarChatEvidence(Tail(refs))

\* verifyDeed of the chat variant, from the assistant message to the returned object
FanarChatResult(message, lang) ==
    LET v == FanarVerdict(message.content, lang)
        evidence == FanarChatEvidence(message.references)
    IN  [verdict |-> v,
         evidence |-> IF Len(evidence) = 0
                      THEN << Evidence("Fanar Islamic AI", message.content) >>
                      ELSE evidence,
         summary |-> << message.content >>,
         reasoning |-> << extractReasoning(message.content, lang) >>,
         brief_verdict |-> << extractBriefVerdict(v, lang) >>]

(***************************************************************************)
(* verifyDeed of the Islamic-RAG variant of lib/api, which asks the model  *)
(* for a JSON answer.  JSON.parse is the library's: an answer carries its  *)
(* text and what parsing it gives, json = [kind, verdict, hasEvidence,     *)
(* evidence] with kind "invalid" (parse throws), "null" or "object".       *)
(***************************************************************************)
IsWordChar(c) ==
    c \in { "a", "b", "c", "d", "e", "f", "g", "h", "i", "j", "k", "l", "m", "n", "o",
            "p", "q", "r", "s", "t", "u", "v", "w", "x", "y", "z", "0", "1", "2", "3",
            "4", "5", "6", "7", "8", "9", "_" }

\* /\b(permissible|forbidden|haram|halal|allowed|prohibited)\b/i.test(text)
HasVerdictWord(text) ==
    LET t == ToLowerCase(text)
    IN  \E k \in 1..Len(verdictTerms) :
            \E i \in 1..(Len(t) - Len(verdictTerms[k]) + 1) :
                LET j == i + Len(verdictTerms[k]) - 1
                IN  /\ SubSeq(t, i, j) = verdictTerms[k]
                    /\ (i = 1 \/ ~IsWordChar(SubSeq(t, i - 1, i - 1)))
                    /\ (j = Len(t) \/ ~IsWordChar(SubSeq(t, j + 1, j + 1)))

ragSummaryMaxLength == 200
ragSummaryFit == 180
ragSummaryEmptyCut == 150
ragShortSentence == 30

\* the for loop that rebuilds the summary word by word
RECURSIVE TruncateWords(_, _)
TruncateWords(words, truncated) ==
    IF words = <<>> THEN truncated
    ELSE IF Len(truncated \o Head(words)) > ragSummaryFit THEN truncated
         ELSE TruncateWords(Tail(words),
                            truncated \o (IF truncated # "" THEN " " ELSE "") \o Head(words))

\* summarizeResponse(text)
summarizeResponse(text) ==
    LET cleanText == Trim(StripTags(text))
        sentences == LongerThan(SplitSentences(cleanText), 10)
        first == Trim(Head(sentences))
        summary ==
            IF (Len(first) < ragShortSentence \/ ~HasVerdictWord(first)) /\ Len(sentences) > 1
            THEN first \o ". " \o Trim(sentences[2])
            ELSE first
    IN  IF Len(sentences) = 0 THEN Substring0(cleanText, ragSummaryEmptyCut) \o "..."
        ELSE IF Len(summary) > ragSummaryMaxLength
             THEN TruncateWords(SplitSpace(summary), "") \o "."
             ELSE summary

\* the catch of JSON.parse: "Fallback: analyze the text response"
RagTextVerdict(content) ==
    IF /\ Includes(ToLowerCase(content), "permissible")
       /\ ~Includes(ToLowerCase(content), "not permissible")
       /\ ~Includes(ToLowerCase(content), "haram")
       /\ ~Includes(ToLowerCase(content), "forbidden")
    THEN "permissible" ELSE "not_permissible"

RECURSIVE RagTextEvidence(_, _)
RagTextEvidence(refs, content) ==
    IF refs = <<>> THEN <<>>
    ELSE << Evidence(Or(Head(refs).source, "Islamic Source"),
                     Or(Head(refs).content, Substring0(content, 200) \o "...")) >>
         \o RagTextEvidence(Tail(refs), content)

RECURSIVE RagReferenceEvidence(_)
RagReferenceEvidence(refs) ==
    IF refs = <<>> THEN <<>>
    ELSE << Evidence(Or(Head(refs).source, "Reference " \o Head(refs).number),
                     Head(refs).content) >>
         \o RagReferenceEvidence(Tail(refs))

\* formatEvidenceForUser(evidence): slice(0, 3), snippets kept whole
formatEvidenceForUser(evidence) == SubSeq(evidence, 1, Min(3, Len(evidence)))

\* parsedResponse.evidence is read off null: a TypeError, caught and rethrown
FanarRagThrows(message) == message.json.kind = "null"

\* verifyDeed of the RAG variant, from the content to the returned object
FanarRagResult(message) ==
    LET content == message.content
        references == message.references
        parsedVerdict ==
            IF message.json.kind = "object" THEN message.json.verdict
            ELSE RagTextVerdict(content)
        parsedEvidence ==
            IF message.json.kind = "object"
            THEN (IF message.json.hasEvidence THEN message.json.evidence ELSE <<>>)
            ELSE IF Len(references) > 0 THEN RagTextEvidence(references, content)
                 ELSE << Evidence("Islamic Analysis", Substring0(content, 300) \o "...") >>
        evidence ==
            IF Len(references) > 0 /\ Len(parsedEvidence) = 0
            THEN RagReferenceEvidence(references) ELSE parsedEvidence
        formattedEvidence == formatEvidenceForUser(evidence)
    IN  Result(IF parsedVerdict = "permissible" \/ parsedVerdict = "msmw7"
               THEN "not_sin" ELSE "sin",
               IF Len(formattedEvidence) > 0 THEN formattedEvidence
               ELSE << Evidence("Islamic Analysis",
                                "Analysis completed based on Islamic teachings") >>,
               << summarizeResponse(content) >>)

\* the mock response of the RAG variant when Reminder.dev cannot be used
RagUnavailable(q) ==
    Result("sin",
           << Evidence("API Services Unavailable",
                       "Unable to verify \"" \o q
                       \o "\" at this time. Please check your internet connection and try again later.") >>,
           << "Service temporarily unavailable. Please try again later." >>)

(***************************************************************************)
(* The state of the service before any verification.                       *)
(***************************************************************************)
NoVerse == [surah |-> "", numberInSurah |-> "", englishName |-> "", text |-> ""]
NoHandlerLocals ==
    [verdict |-> "", finalEvidence |-> <<>>, answer |-> "", relevantVerse |-> NoVerse]

IdleFormatter ==
    /\ upstreamReferences = <<>>
    /\ evidenceOut = <<>>
    /\ summaryOut = <<>>
    /\ producedBy = "none"

IdleCounter ==
    /\ signedIn = FALSE
    /\ hookVariant = "offline"
    /\ clock = 1
    /\ today = 1
    /\ count = 0
    /\ loading = FALSE
    /\ pendingSync = FALSE
    /\ localStorage = [d \in 1..MaxDay |-> ""]
    /\ dailyCounts = [d \in 1..MaxDay |-> <<>>]
    /\ loads = <<>>
    /\ writes = <<>>
    /\ counterCalls = 0
    /\ runningSum = 0
    /\ freshDay = TRUE
    /\ writeFailed = FALSE
    /\ lastCall = "none"

IdleTrend ==
    /\ trendVariant = "fetch"
    /\ trendUser = FALSE
    /\ dbReady = FALSE
    /\ period = 7
    /\ nowDay = 0
    /\ history = {}
    /\ trendData = <<>>
    /\ trendLoading = FALSE
    /\ trendError = ""
    /\ fetches = <<>>
    /\ selections = 0
    /\ answered = <<>>

NoRequest == [auth |-> <<>>, method |-> "get", path |-> <<>>, data |-> <<>>]

IdleRules ==
    /\ request = NoRequest
    /\ decision = "none"

IdleWorker ==
    /\ workerVariant = "sw"
    /\ cacheStorage = {}
    /\ events = <<>>
    /\ served = <<>>
    /\ eventCount = 0

IdleNetwork ==
    /\ online = TRUE
    /\ outages = 0
    /\ listensOnline = FALSE
    /\ changedOffline = FALSE

IdleWait ==
    /\ waitVariant = "firebase.ts"
    /\ hostname = "localhost"
    /\ devBuild = FALSE
    /\ runtimeConfig = "absent"
    /\ attempts = 0
    /\ waitState = "resolved"
    /\ polls = 0

IdleFirebase ==
    /\ firebaseVariant = "firebase.ts"
    /\ envConfig = "valid"
    /\ app = 0
    /\ auth = 0
    /\ db = 0
    /\ initializationPromise = 0
    /\ running = <<>>
    /\ promises = <<>>
    /\ awaiting = <<>>
    /\ received = <<>>
    /\ initLog = <<>>

IdlePlatform == IdleRules /\ IdleWorker /\ IdleNetwork /\ IdleWait /\ IdleFirebase

IdleComponents == IdleFormatter /\ IdleCounter /\ IdleTrend /\ IdlePlatform

IdleService ==
    /\ deedText = ""
    /\ verificationResult = <<>>
    /\ isVerifying = FALSE
    /\ toast = ""
    /\ entry = "none"
    /\ pc = "idle"
    /\ settled = "pending"
    /\ result = <<>>
    /\ calls = <<>>
    /\ failed = <<>>
    /\ inFlight = {}
    /\ handlerLocals = NoHandlerLocals
    /\ response = <<>>
    /\ verifications = 0

(***************************************************************************)
(* The classifiers applied to bounded inputs.                              *)
(***************************************************************************)
AnswerFragments ==
    { "Charity is halal and is encouraged", "is permissible", " is HARAM",
      " not allowed", " scholars differ", "th", " consult a scholar",
      " 7ram", " 7lal" }

RECURSIVE Concat(_)
Concat(fs) == IF fs = <<>> THEN "" ELSE Head(fs) \o Concat(Tail(fs))

\* every text of at most MaxFragments fragments, the empty text included
Answers ==
    { Concat(fs) : fs \in UNION { [1..n -> AnswerFragments] : n \in 0..MaxFragments } }

Queries == { "charity", "Giving charity", "wine", "is this", "Is it haram" }
Languages == { "en", "ar" }

InitClassifier ==
    /\ query \in Queries
    /\ language \in Languages
    /\ answer \in Answers
    /\ classifiedBy = "none"
    /\ verdict = "none"
    /\ apiKey = ""
    /\ isDevelopment = FALSE
    /\ apiModule = "chat"
    /\ IdleService
    /\ IdleComponents

ClassifyReminderDev ==
    /\ classifiedBy = "none"
    /\ classifiedBy' = "reminderDev"
    /\ verdict' = ReminderDevVerdict(query, answer)
    /\ UNCHANGED <<query, language, answer, configVars, componentVars, dashboardVars, callVars>>

ClassifyHandler ==
    /\ classifiedBy = "none"
    /\ classifiedBy' = "handler"
    /\ verdict' = HandlerVerdict(query, answer)
    /\ UNCHANGED <<query, language, answer, configVars, componentVars, dashboardVars, callVars>>

ClassifyFanar ==
    /\ classifiedBy = "none"
    /\ classifiedBy' = "fanar"
    /\ verdict' = FanarVerdict(answer, language)
    /\ UNCHANGED <<query, language, answer, configVars, componentVars, dashboardVars, callVars>>

NextClassifier == ClassifyReminderDev \/ ClassifyHandler \/ ClassifyFanar

SpecClassifier == InitClassifier /\ [][NextClassifier]_vars

(***************************************************************************)
(* The verification service, the proxy handler and the dashboard.          *)
(* One invocation runs at a time; its awaits are the values of pc.         *)
(***************************************************************************)
Resolved(r) == [how |-> "resolved", result |-> <<r>>]
Rejected == [how |-> "rejected", result |-> <<>>]

\* apiKey && apiKey !== 'your_fanar_api_key_here'
FanarConfigured == apiKey # "" /\ apiKey # "your_fanar_api_key_here"

\* apiUrl of verifyDeedWithReminderDev: Reminder.dev itself, or the proxy
ReminderTarget == IF isDevelopment THEN "reminder" ELSE "proxy"
ReminderWait == IF isDevelopment THEN "reminder_wait" ELSE "proxy_wait"

\* the catch block of verifyDeedWithReminderDev settles the call
ReminderDevCaughtRethrows(q) == Rejected
ReminderDevCaught(q) == Resolved(ReminderDevFallback(q))

\* the catch block of verifyDeedHybrid names what is tried after Fanar
HybridRetriesFanar == "fanar"
HybridFallbackTarget == ReminderTarget

HybridFallbackWait ==
    IF HybridFallbackTarget = "fanar" THEN "fanar_wait" ELSE ReminderWait

(***************************************************************************)
(* Bounded inputs of the service.                                          *)
(***************************************************************************)
DeedTexts == { "", "  ", "fasting", "Giving charity" }
ServiceQueries == { "fasting", "Giving charity" }
\* the entry points take any string
DirectQueries == { "" } \cup ServiceQueries
FailureKinds == { "network", "http_error", "malformed", "no_answer" }

NoReference ==
    [text |-> "", source |-> "", collection |-> "", chapter |-> "", surah |-> "",
     verse |-> "", ayah |-> "", name |-> "", surah_name |-> "", book_number |-> "",
     hadith_number |-> "", reference |-> "", citation |-> "", context |-> "",
     volume |-> "", book |-> ""]
FastingVerse ==
    [NoReference EXCEPT !.text = "O you who believe, fasting is prescribed for you.",
                        !.source = "quran", !.chapter = "2", !.verse = "183",
                        !.name = "Al-Baqarah"]
FoodHadith ==
    [NoReference EXCEPT !.text = "Eat of the good things.", !.collection = "bukhari",
                        !.reference = "5376"]

ReminderData ==
    { [answer |-> "Fasting is obligatory. It is encouraged.",
       references |-> <<FastingVerse, FoodHadith>>],
      [answer |-> "Scholars differ; the matter is debated.", references |-> <<>>],
      [answer |-> "<p>It is haram.</p>", references |-> <<FoodHadith>>] }

InvalidJson == [kind |-> "invalid", verdict |-> "", hasEvidence |-> FALSE, evidence |-> <<>>]
FanarMessages ==
    { [content |-> "Fasting is permissible and encouraged.", references |-> <<>>,
       json |-> InvalidJson],
      [content |-> "{\"verdict\": \"not_permissible\"}",
       references |-> << [source |-> "", content |-> "Quran 2:183", number |-> "1"] >>,
       json |-> [InvalidJson EXCEPT !.kind = "object", !.verdict = "not_permissible"]],
      [content |-> "null", references |-> <<>>,
       json |-> [InvalidJson EXCEPT !.kind = "null"]],
      [content |-> "", references |-> <<>>, json |-> InvalidJson] }

Verses ==
    { [surah |-> "2", numberInSurah |-> "183", englishName |-> "Al-Baqara",
       text |-> "O you who believe, fasting is prescribed for you."],
      [surah |-> "2", numberInSurah |-> "184", englishName |-> "Al-Baqara",
       text |-> "A limited number of days."] }

(***************************************************************************)
(* Fragments of actions: what a step does to the invocation under way.     *)
(***************************************************************************)
Begin(e, q, lang) ==
    /\ entry' = e
    /\ query' = q
    /\ language' = lang
    /\ verifications' = verifications + 1

\* await fetch(...): the request to p is sent and the caller waits at w
Send(p, w) ==
    /\ pc' = w
    /\ calls' = Append(calls, p)
    /\ inFlight' = inFlight \cup {p}

\* the promise of the entry point settles
Settle(o) ==
    /\ pc' = "done"
    /\ settled' = o.how
    /\ result' = o.result

\* the request to p has been answered, well or not
Answered(p, ok) ==
    /\ inFlight' = inFlight \ {p}
    /\ failed' = IF ok THEN failed ELSE Append(failed, p)

\* one request is answered and the next is sent
AnsweredThenSend(p, ok, next, w) ==
    /\ pc' = w
    /\ calls' = Append(calls, next)
    /\ inFlight' = (inFlight \ {p}) \cup {next}
    /\ failed' = IF ok THEN failed ELSE Append(failed, p)

\* res.status(status).json(body) of the handler
Respond(caller, status, error, body, crossVerified) ==
    /\ response' = << [status |-> status, error |-> error, body |-> body,
                       crossVerified |-> crossVerified] >>
    /\ IF caller = "http"
       THEN Settle(IF status = 200 THEN [how |-> "resolved", result |-> body]
                   ELSE Rejected)
       ELSE pc' = "proxy_reply" /\ UNCHANGED <<settled, result>>

\* handler, up to its first await
HandlerStart(caller, method, bodyQuery) ==
    IF method # "POST"
    THEN /\ Respond(caller, 405, "Method not allowed", <<>>, FALSE)
         /\ UNCHANGED <<calls, inFlight, failed, handlerLocals>>
    ELSE IF bodyQuery = ""
    THEN /\ Respond(caller, 400, "Query is required", <<>>, FALSE)
         /\ UNCHANGED <<calls, inFlight, failed, handlerLocals>>
    ELSE /\ Send("reminder", "h_reminder_wait")
         /\ UNCHANGED <<failed, settled, result, handlerLocals, response>>

\* verifyDeedWithReminderDev, up to its await fetch
ReminderDevStart ==
    /\ Send(ReminderTarget, ReminderWait)
    /\ UNCHANGED <<failed, settled, result, handlerLocals, response>>

FanarStart ==
    /\ Send("fanar", "fanar_wait")
    /\ UNCHANGED <<failed, settled, result, handlerLocals, response>>

SettleAtOnce(o) ==
    /\ Settle(o)
    /\ UNCHANGED <<calls, inFlight, failed, handlerLocals, response>>

\* verifyDeed of lib/api, up to its first await on a request: the chat
\* variant throws without a key; the RAG variant imports reminderDev, a
\* chunk of its own whose load can fail, and falls back to a mock response
ApiVerifyDeedStart(q) ==
    IF FanarConfigured THEN FanarStart
    ELSE IF apiModule = "chat" THEN SettleAtOnce(Rejected)
    ELSE \/ ReminderDevStart
         \/ SettleAtOnce(Resolved(RagUnavailable(q)))

\* verifyDeedHybrid, up to its first await on a request; lib/api is loaded
\* with the dashboard, so import('./api') resolves
HybridStart == IF FanarConfigured THEN FanarStart ELSE ReminderDevStart

\* what verifyDeed makes of a Fanar answer
FanarThrows(message) ==
    apiModule = "rag" /\ (message.content = "" \/ FanarRagThrows(message))
FanarResult(message, lang) ==
    IF apiModule = "chat" THEN FanarChatResult(message, lang) ELSE FanarRagResult(message)

(***************************************************************************)
(* The verification service: the dashboard, the two client entry points,   *)
(* the proxy handler, and the answers of the providers.                    *)
(***************************************************************************)
ApiKeys == {"", "your_fanar_api_key_here", "fanar-key"}
Outcomes == {"ok"} \cup FailureKinds
TransportFailures == {"network", "http_error", "malformed"}

InitVerify ==
    /\ query = ""
    /\ language = "en"
    /\ answer = ""
    /\ classifiedBy = "none"
    /\ verdict = "none"
    /\ apiKey \in ApiKeys
    /\ isDevelopment \in BOOLEAN
    /\ apiModule \in {"chat", "rag"}
    /\ IdleService
    /\ IdleComponents

Idle == entry = "none" /\ pc = "idle" /\ verifications < MaxVerifications

\* onChange of the deed input
SetDeedText ==
    /\ Idle
    /\ ~isVerifying
    /\ \E text \in DeedTexts : deedText' = text
    /\ UNCHANGED <<query, language, classifierVars, configVars, componentVars, verificationResult,
                   isVerifying, toast, callVars>>

\* handleVerifyDeed past its guard, up to the await of verifyDeed
StartVerifying ==
    /\ isVerifying' = TRUE
    /\ Begin("dashboard", deedText, "en")
    /\ ApiVerifyDeedStart(deedText)
    /\ UNCHANGED <<deedText, verificationResult, toast>>

HandleVerifyDeed ==
    /\ Idle
    /\ ~isVerifying
    /\ IF Trim(deedText) = ""
       THEN /\ toast' = "Please enter a deed to verify"
            /\ UNCHANGED <<query, language, deedText, verificationResult, isVerifying,
                           callVars>>
       ELSE StartVerifying
    /\ UNCHANGED <<classifierVars, configVars, componentVars>>

\* setDeedText('') after the result is shown
KeptDeedText(text) == text
ClearedDeedText(text) == ""

\* handleVerifyDeed from the await to the end of its finally
HandleVerifyDeedSettled ==
    /\ entry = "dashboard"
    /\ pc = "done"
    /\ IF settled = "resolved"
       THEN /\ verificationResult' = result
            /\ deedText' = ClearedDeedText(deedText)
            /\ toast' = IF Len(result[1].evidence) > 0
                           /\ result[1].evidence[1].source
                                \in {"Service Notice", "API Services Unavailable"}
                        THEN "Service unavailable - showing offline response"
                        ELSE "Deed verified successfully"
       ELSE /\ toast' = "Failed to verify deed. Please try again."
            /\ UNCHANGED <<deedText, verificationResult>>
    /\ isVerifying' = FALSE
    /\ entry' = "none"
    /\ pc' = "idle"
    /\ settled' = "pending"
    /\ result' = <<>>
    /\ calls' = <<>>
    /\ failed' = <<>>
    /\ inFlight' = {}
    /\ handlerLocals' = NoHandlerLocals
    /\ response' = <<>>
    /\ UNCHANGED <<query, language, classifierVars, configVars, componentVars, verifications>>

CallHybrid ==
    /\ Idle
    /\ \E q \in DirectQueries, lang \in Languages : Begin("hybrid", q, lang)
    /\ HybridStart
    /\ UNCHANGED <<classifierVars, configVars, componentVars, dashboardVars>>

CallReminderDev ==
    /\ Idle
    /\ \E q \in DirectQueries, lang \in Languages : Begin("reminderDev", q, lang)
    /\ ReminderDevStart
    /\ UNCHANGED <<classifierVars, configVars, componentVars, dashboardVars>>

\* a request to /api/deed-checker from outside the client
HttpRequest ==
    /\ Idle
    /\ \E method \in {"POST", "GET"}, q \in {""} \cup ServiceQueries :
          /\ Begin("http", q, "en")
          /\ HandlerStart("http", method, q)
    /\ UNCHANGED <<classifierVars, configVars, componentVars, dashboardVars>>

\* the caller of an entry point other than the dashboard has its answer
Return ==
    /\ entry \in {"hybrid", "reminderDev", "http"}
    /\ pc = "done"
    /\ entry' = "none"
    /\ pc' = "idle"
    /\ settled' = "pending"
    /\ result' = <<>>
    /\ calls' = <<>>
    /\ failed' = <<>>
    /\ inFlight' = {}
    /\ handlerLocals' = NoHandlerLocals
    /\ response' = <<>>
    /\ UNCHANGED <<query, language, classifierVars, configVars, componentVars, dashboardVars,
                   verifications>>

\* the answer of the Fanar API reaches verifyDeed of lib/api
FanarResponse ==
    /\ pc = "fanar_wait"
    /\ \E outcome \in Outcomes, message \in FanarMessages :
          IF outcome = "ok" /\ ~FanarThrows(message)
          THEN /\ Settle(Resolved(FanarResult(message, language)))
               /\ Answered("fanar", TRUE)
               /\ UNCHANGED calls
          ELSE IF entry = "hybrid"
          THEN \* catch of verifyDeedHybrid: fall back to Reminder.dev
               AnsweredThenSend("fanar", FALSE, HybridFallbackTarget, HybridFallbackWait)
               /\ UNCHANGED <<settled, result>>
          ELSE /\ Settle(Rejected)
               /\ Answered("fanar", FALSE)
               /\ UNCHANGED calls
    /\ UNCHANGED <<query, language, classifierVars, configVars, componentVars, dashboardVars, entry,
                   handlerLocals, response, verifications>>

\* the answer of reminder.dev reaches verifyDeedWithReminderDev (development)
ReminderResponse ==
    /\ pc = "reminder_wait"
    /\ \E outcome \in Outcomes, data \in ReminderData :
          IF outcome = "ok"
          THEN /\ Settle(Resolved(ReminderDevResult(query, data)))
               /\ Answered("reminder", TRUE)
          ELSE /\ Settle(ReminderDevCaught(query))
               /\ Answered("reminder", FALSE)
    /\ UNCHANGED <<query, language, classifierVars, configVars, componentVars, dashboardVars, entry,
                   calls, handlerLocals, response, verifications>>

\* the request to /api/deed-checker never reaches the handler
ProxyUnreachable ==
    /\ pc = "proxy_wait"
    /\ Settle(ReminderDevCaught(query))
    /\ Answered("proxy", FALSE)
    /\ UNCHANGED <<query, language, classifierVars, configVars, componentVars, dashboardVars, entry,
                   calls, handlerLocals, response, verifications>>

\* the handler runs on the request of the client
HandlerReceive ==
    /\ pc = "proxy_wait"
    /\ HandlerStart(entry, "POST", query)
    /\ UNCHANGED <<query, language, classifierVars, configVars, componentVars, dashboardVars, entry,
                   verifications>>

\* handler, from the answer of reminder.dev to the search for a verse
HandlerReminderResponse ==
    /\ pc = "h_reminder_wait"
    /\ \E outcome \in Outcomes, data \in ReminderData :
          IF outcome = "ok"
          THEN /\ handlerLocals' =
                     [verdict |-> HandlerVerdict(query, data.answer),
                      finalEvidence |-> HandlerFinalEvidence(query, data.references),
                      answer |-> data.answer,
                      relevantVerse |-> NoVerse]
               /\ AnsweredThenSend("reminder", TRUE, "quran_search", "h_search_wait")
               /\ UNCHANGED <<settled, result, response>>
          ELSE /\ Answered("reminder", FALSE)
               /\ Respond(entry, 200, "", << HandlerFallback(query) >>, FALSE)
               /\ UNCHANGED <<calls, handlerLocals>>
    /\ UNCHANGED <<query, language, classifierVars, configVars, componentVars, dashboardVars, entry,
                   verifications>>

\* res.status(200).json(result) at the end of the handler's try
HandlerFinish(evidence) ==
    Respond(entry, 200, "",
            << Result(handlerLocals.verdict, evidence,
                      << HandlerSummary(query, handlerLocals.answer,
                                        handlerLocals.verdict) >>) >>,
            Len(evidence) > Len(handlerLocals.finalEvidence))

\* crossVerifyQuranReferences, from the answer of the search
HandlerSearchResponse ==
    /\ pc = "h_search_wait"
    /\ \/ \E failure \in TransportFailures :
             /\ Answered("quran_search", FALSE)
             /\ HandlerFinish(handlerLocals.finalEvidence)
             /\ UNCHANGED <<calls, handlerLocals>>
       \/ /\ Answered("quran_search", TRUE)
          /\ HandlerFinish(handlerLocals.finalEvidence)
          /\ UNCHANGED <<calls, handlerLocals>>
       \/ \E v \in Verses :
             /\ handlerLocals' = [handlerLocals EXCEPT !.relevantVerse = v]
             /\ AnsweredThenSend("quran_search", TRUE, "quran_verse", "h_verse_wait")
             /\ UNCHANGED <<settled, result, response>>
    /\ UNCHANGED <<query, language, classifierVars, configVars, componentVars, dashboardVars, entry,
                   verifications>>

\* crossVerifyQuranReferences, from the answer of the verse lookup
HandlerVerseResponse ==
    /\ pc = "h_verse_wait"
    /\ \/ \E failure \in TransportFailures :
             /\ Answered("quran_verse", FALSE)
             /\ HandlerFinish(handlerLocals.finalEvidence)
       \/ /\ Answered("quran_verse", TRUE)
          /\ HandlerFinish(CrossVerified(handlerLocals.finalEvidence,
                                         handlerLocals.relevantVerse))
    /\ UNCHANGED <<query, language, classifierVars, configVars, componentVars, dashboardVars, entry,
                   calls, handlerLocals, verifications>>

\* the response of the handler reaches verifyDeedWithReminderDev (production)
ProxyReply ==
    /\ pc = "proxy_reply"
    /\ \/ /\ response[1].status = 200
          /\ Settle([how |-> "resolved", result |-> response[1].body])
          /\ Answered("proxy", TRUE)
       \/ /\ Settle(ReminderDevCaught(query))
          /\ Answered("proxy", FALSE)
    /\ UNCHANGED <<query, language, classifierVars, configVars, componentVars, dashboardVars, entry,
                   calls, handlerLocals, response, verifications>>

NextVerify ==
    \/ SetDeedText
    \/ HandleVerifyDeed
    \/ HandleVerifyDeedSettled
    \/ CallHybrid
    \/ CallReminderDev
    \/ HttpRequest
    \/ Return
    \/ FanarResponse
    \/ ReminderResponse
    \/ ProxyUnreachable
    \/ HandlerReceive
    \/ HandlerReminderResponse
    \/ HandlerSearchResponse
    \/ HandlerVerseResponse
    \/ ProxyReply

SpecVerify == InitVerify /\ [][NextVerify]_vars

(***************************************************************************)
(* The evidence formatters and the summary extractors on bounded inputs,   *)
(* with texts on both sides of every length the code compares with.        *)
(***************************************************************************)
RECURSIVE Repeat(_, _)
Repeat(unit, n) ==
    IF n = 0 THEN ""
    ELSE IF n = 1 THEN unit
    ELSE Repeat(unit, n \div 2) \o Repeat(unit, n - n \div 2)

\* 358 characters, no full stop
LongText == "fasting " \o Repeat("word ", 70)
\* 385 characters, one full stop at index 233
LongTextWithStop == "fasting " \o Repeat("word ", 45) \o ". " \o Repeat("more ", 30)
\* 208 characters: over the client's bound, under the handler's
MiddleText == "fasting " \o Repeat("word ", 40)

FormatterReferences ==
    { FastingVerse,
      FoodHadith,
      [NoReference EXCEPT !.text = LongText, !.source = "quran", !.chapter = "2",
                          !.verse = "187"],
      [NoReference EXCEPT !.text = LongTextWithStop, !.source = "tafsir",
                          !.citation = "Ibn Kathir"],
      [NoReference EXCEPT !.text = MiddleText, !.collection = "muslim"],
      [NoReference EXCEPT !.source = "quran", !.chapter = "2", !.verse = "185"] }

ReferenceLists == UNION { [1..n -> FormatterReferences] : n \in 0..MaxReferences }

FormatterQueries == { "singing", "fasting rules", "do it" }

\* the verses the Quran lookup may answer with; 2:282 runs over 300 characters
FormatterVerses ==
    Verses \cup { [surah |-> "2", numberInSurah |-> "282", englishName |-> "Al-Baqara",
                   text |-> "O you who believe, " \o Repeat("write it down ", 25)] }

FormatterAnswers ==
    { "Scholars differ on this matter. Some allow singing.",
      "Fasting is obligatory. It is encouraged.",
      "<p>It is haram &amp; forbidden.</p>",
      Repeat("No. ", 40),
      Repeat("a", 350) \o ". It is debated",
      Repeat("word ", 50) }

InitFormatter ==
    /\ query \in FormatterQueries
    /\ language = "en"
    /\ \/ upstreamReferences \in ReferenceLists /\ answer = ""
       \/ upstreamReferences = <<>> /\ answer \in FormatterAnswers
    /\ classifiedBy = "none"
    /\ verdict = "none"
    /\ apiKey = ""
    /\ isDevelopment = FALSE
    /\ apiModule = "chat"
    /\ IdleService
    /\ IdleCounter
    /\ IdleTrend
    /\ IdlePlatform
    /\ evidenceOut = <<>>
    /\ summaryOut = <<>>
    /\ producedBy = "none"

Produce(who, evidence) ==
    /\ producedBy' = who
    /\ evidenceOut' = evidence
    /\ UNCHANGED <<query, language, classifierVars, configVars, dashboardVars, callVars,
                   upstreamReferences, summaryOut, counterVars, trendVars, platformVars>>

\* verifyDeedWithReminderDev: queryKeywords and formatReminderDevEvidence
FormatClient ==
    /\ producedBy = "none"
    /\ Produce("client",
               formatReminderDevEvidence(upstreamReferences, queryKeywords(query)))

\* handler: queryKeywords and formattedEvidence
FormatHandler ==
    /\ producedBy = "none"
    /\ Produce("handler",
               HandlerFormattedEvidence(upstreamReferences, queryKeywords(query)))

\* src/lib/reminderDev.ts: formatReminderDevEvidence
FormatLib ==
    /\ producedBy = "none"
    /\ Produce("lib", LibFormatReminderDevEvidence(upstreamReferences))

\* handler: finalEvidence, then crossVerifyQuranReferences
FormatHandlerCrossVerified ==
    /\ producedBy = "handler"
    /\ \/ Produce("proxy", HandlerFinalEvidence(query, upstreamReferences))
       \/ \E v \in FormatterVerses :
             Produce("proxy",
                     CrossVerified(HandlerFinalEvidence(query, upstreamReferences), v))

Summarize(who, v, text) ==
    /\ producedBy' = who
    /\ verdict' = v
    /\ summaryOut' = << text >>
    /\ UNCHANGED <<query, language, answer, classifiedBy, configVars, dashboardVars,
                   callVars, upstreamReferences, evidenceOut, counterVars, trendVars,
                   platformVars>>

\* verifyDeedWithReminderDev: the verdict, then summarizeReminderDevResponse
SummarizeClient ==
    /\ producedBy = "none"
    /\ LET v == ReminderDevVerdict(query, answer)
       IN  Summarize("client", v, summarizeReminderDevResponse(answer, v))

\* handler: the verdict, then the summary
SummarizeHandler ==
    /\ producedBy = "none"
    /\ LET v == HandlerVerdict(query, answer)
       IN  Summarize("handler", v, HandlerSummary(query, answer, v))

\* verifyDeed of the chat variant: summary is the content of the message
SummarizeFanar ==
    /\ producedBy = "none"
    /\ Summarize("fanar", FanarVerdict(answer, language), answer)

NextFormatter ==
    \/ FormatClient
    \/ FormatHandler
    \/ FormatLib
    \/ FormatHandlerCrossVerified
    \/ SummarizeClient
    \/ SummarizeHandler
    \/ SummarizeFanar

SpecFormatter == InitFormatter /\ [][NextFormatter]_vars

(***************************************************************************)
(* The daily counter: the hook useSinCounter under the Dashboard, in its   *)
(* two forms.  The "offline" hook keeps the count in localStorage until    *)
(* the write has landed; the "revert" hook puts the count back when the    *)
(* write is rejected.  Days are numbered; the document and the item of a   *)
(* day are keyed by the day the calling render computed.                   *)
(***************************************************************************)
Days == 1..MaxDay
HookVariants == { "offline", "revert" }

Digits == "0123456789"
DigitChar(d) == SubSeq(Digits, d + 1, d + 1)
IsDigit(c) == \E d \in 0..9 : DigitChar(d) = c
DigitValue(c) == CHOOSE d \in 0..9 : DigitChar(d) = c
NaN == "NaN"

\* Number.prototype.toString of an integer
RECURSIVE NumberToString(_)
NumberToString(n) ==
    IF n < 0 THEN "-" \o NumberToString(0 - n)
    ELSE IF n < 10 THEN DigitChar(n)
    ELSE NumberToString(n \div 10) \o DigitChar(n % 10)

\* the value of the leading digits of s, read after acc
RECURSIVE ParseDigits(_, _)
ParseDigits(s, acc) ==
    IF s = "" \/ ~IsDigit(CharAt0(s)) THEN acc
    ELSE ParseDigits(Slice1(s), 10 * acc + DigitValue(CharAt0(s)))

\* parseInt(s, 10): an optional sign, then the leading digits; NaN without any
ParseInt(s) ==
    LET negative == CharAt0(s) = "-"
        body == IF negative THEN Slice1(s) ELSE s
    IN  IF ~IsDigit(CharAt0(body)) THEN NaN
        ELSE IF negative THEN 0 - ParseDigits(body, 0)
        ELSE ParseDigits(body, 0)

\* data.count || 0
OrZero(n) == IF n = 0 THEN 0 ELSE n

\* the count and the pendingSync a finished read of the day leaves
LoadedCount(day, failed_) ==
    IF hookVariant = "revert"
    THEN IF ~failed_ /\ dailyCounts[day] # <<>> THEN OrZero(dailyCounts[day][1]) ELSE 0
    ELSE IF ~failed_ /\ dailyCounts[day] # <<>> THEN OrZero(dailyCounts[day][1])
         ELSE IF localStorage[day] # "" THEN ParseInt(localStorage[day])
         ELSE count

LoadedPendingSync(day, failed_) ==
    IF hookVariant = "offline" /\ (failed_ \/ dailyCounts[day] = <<>>)
        /\ localStorage[day] # ""
    THEN TRUE
    ELSE pendingSync

IncrementedCount(c) == c + 1
DecrementedCount(c) == c - 1

\* decrement's early return
DecrementBlockedWithoutUserOnly == ~signedIn
DecrementBlocked == ~signedIn \/ count <= 0

\* a render computes today anew; the load effect runs again when it changed
Render ==
    /\ today' = clock
    /\ loads' = IF clock # today /\ signedIn THEN Append(loads, clock) ELSE loads

RenderIf(changed) == IF changed THEN Render ELSE UNCHANGED <<today, loads>>

InitialCounts == { <<>>, << 2 >> }
InitialItems == { "", "3" }

otherThanCounter ==
    <<query, language, classifierVars, configVars, dashboardVars, callVars, formatterVars,
      trendVars, platformVars>>

\* the hook's state at its first render
InitHook ==
    /\ signedIn \in BOOLEAN
    /\ hookVariant \in HookVariants
    /\ clock = 1
    /\ today = 1
    /\ count = 0
    /\ loading = signedIn
    /\ pendingSync = FALSE
    /\ \E item \in InitialItems :
           /\ hookVariant = "revert" => item = ""
           /\ localStorage = [d \in Days |-> IF d = 1 THEN item ELSE ""]
    /\ \E stored \in InitialCounts :
           dailyCounts = [d \in Days |-> IF d = 1 THEN stored ELSE <<>>]
    /\ loads = IF signedIn THEN << 1 >> ELSE <<>>
    /\ writes = <<>>
    /\ counterCalls = 0
    /\ runningSum = 0
    /\ freshDay = (dailyCounts[1] = <<>> /\ localStorage[1] = "")
    /\ writeFailed = FALSE
    /\ lastCall = "none"

InitCounter ==
    /\ query = ""
    /\ language = "en"
    /\ answer = ""
    /\ classifiedBy = "none"
    /\ verdict = "none"
    /\ apiKey = ""
    /\ isDevelopment = FALSE
    /\ apiModule = "chat"
    /\ IdleService
    /\ IdleFormatter
    /\ IdleTrend
    /\ IdlePlatform
    /\ InitHook

Without(xs, i) == SubSeq(xs, 1, i - 1) \o SubSeq(xs, i + 1, Len(xs))

\* loadTodaysCount after its getDoc; the reads end in any order
LoadCompletes ==
    \E i \in DOMAIN loads : \E failed_ \in BOOLEAN :
        /\ count' = LoadedCount(loads[i], failed_)
        /\ pendingSync' = LoadedPendingSync(loads[i], failed_)
        /\ loading' = FALSE
        /\ today' = clock
        /\ loads' = IF clock # today
                    THEN Append(Without(loads, i), clock)
                    ELSE Without(loads, i)
        /\ UNCHANGED <<signedIn, hookVariant, clock, localStorage, dailyCounts, writes,
                       counterCalls, runningSum, freshDay, writeFailed, lastCall>>
        /\ UNCHANGED otherThanCounter

NewWrite(value, kind) ==
    [day |-> today, value |-> value, revertTo |-> count, kind |-> kind]

\* the item kept until the write has landed (offline hook only)
StoreLocally(value) ==
    IF hookVariant = "offline"
    THEN [localStorage EXCEPT ![today] = NumberToString(value)]
    ELSE localStorage

\* the Dashboard's + button
IncrementCall ==
    /\ ~loading
    /\ counterCalls < MaxCalls
    /\ counterCalls' = counterCalls + 1
    /\ lastCall' = "increment"
    /\ IF ~signedIn
       THEN UNCHANGED <<count, localStorage, writes, today, loads, runningSum>>
       ELSE /\ count' = IncrementedCount(count)
            /\ localStorage' = StoreLocally(IncrementedCount(count))
            /\ writes' = Append(writes, NewWrite(IncrementedCount(count), "set"))
            /\ runningSum' = runningSum + 1
            /\ Render
    /\ UNCHANGED <<signedIn, hookVariant, clock, loading, pendingSync, dailyCounts,
                   freshDay, writeFailed>>

Increment == IncrementCall /\ UNCHANGED otherThanCounter

\* the Dashboard's - button
DecrementCall ==
    /\ ~loading
    /\ counterCalls < MaxCalls
    /\ counterCalls' = counterCalls + 1
    /\ lastCall' = "decrement"
    /\ IF DecrementBlocked
       THEN UNCHANGED <<count, localStorage, writes, today, loads>>
       ELSE /\ count' = DecrementedCount(count)
            /\ localStorage' = StoreLocally(DecrementedCount(count))
            /\ writes' = Append(writes, NewWrite(DecrementedCount(count), "set"))
            /\ Render
    /\ runningSum' = IF signedIn /\ runningSum > 0 THEN runningSum - 1 ELSE runningSum
    /\ UNCHANGED <<signedIn, hookVariant, clock, loading, pendingSync, dailyCounts,
                   freshDay, writeFailed>>

Decrement == DecrementCall /\ UNCHANGED otherThanCounter

\* syncOfflineData, called when the browser comes online (offline hook only)
SyncOfflineDataCall ==
    /\ hookVariant = "offline"
    /\ lastCall' = "syncOfflineData"
    /\ writes' = IF signedIn /\ localStorage[today] # ""
                 THEN Append(writes, NewWrite(ParseInt(localStorage[today]), "sync"))
                 ELSE writes
    /\ UNCHANGED <<signedIn, hookVariant, clock, today, count, loading, pendingSync,
                   localStorage, dailyCounts, loads, runningSum, freshDay, writeFailed>>

SyncOfflineData ==
    /\ counterCalls < MaxCalls
    /\ counterCalls' = counterCalls + 1
    /\ SyncOfflineDataCall
    /\ UNCHANGED otherThanCounter

\* the oldest setDoc resolves
WriteCompletes ==
    /\ writes # <<>>
    /\ LET w == Head(writes)
       IN  /\ dailyCounts' = [dailyCounts EXCEPT ![w.day] = << w.value >>]
           /\ localStorage' = IF hookVariant = "offline"
                              THEN [localStorage EXCEPT ![w.day] = ""]
                              ELSE localStorage
    /\ pendingSync' = IF hookVariant = "offline" THEN FALSE ELSE pendingSync
    /\ writes' = Tail(writes)
    /\ RenderIf(pendingSync' # pendingSync)
    /\ UNCHANGED <<signedIn, hookVariant, clock, count, loading, counterCalls,
                   runningSum, freshDay, writeFailed, lastCall>>
    /\ UNCHANGED otherThanCounter

\* the oldest setDoc rejects
WriteFails ==
    /\ writes # <<>>
    /\ LET w == Head(writes)
       IN  /\ count' = IF hookVariant = "revert" THEN w.revertTo ELSE count
           /\ pendingSync' = IF hookVariant = "offline" /\ w.kind = "set"
                             THEN TRUE
                             ELSE pendingSync
    /\ writes' = Tail(writes)
    /\ writeFailed' = TRUE
    /\ RenderIf(pendingSync' # pendingSync \/ count' # count)
    /\ UNCHANGED <<signedIn, hookVariant, clock, loading, localStorage, dailyCounts,
                   counterCalls, runningSum, freshDay, lastCall>>
    /\ UNCHANGED otherThanCounter

\* the calendar day ends; the day that begins has no document and no item
Midnight ==
    /\ clock < MaxDay
    /\ clock' = clock + 1
    /\ runningSum' = 0
    /\ freshDay' = TRUE
    /\ UNCHANGED <<signedIn, hookVariant, today, count, loading, pendingSync,
                   localStorage, dailyCounts, loads, writes, counterCalls, writeFailed,
                   lastCall>>
    /\ UNCHANGED otherThanCounter

\* the Dashboard renders again for a reason of its own
Rerender ==
    /\ clock # today
    /\ Render
    /\ UNCHANGED <<signedIn, hookVariant, clock, count, loading, pendingSync,
                   localStorage, dailyCounts, writes, counterCalls, runningSum,
                   freshDay, writeFailed, lastCall>>
    /\ UNCHANGED otherThanCounter

NextCounter ==
    \/ LoadCompletes
    \/ Increment
    \/ Decrement
    \/ SyncOfflineData
    \/ WriteCompletes
    \/ WriteFails
    \/ Midnight
    \/ Rerender

SpecCounter == InitCounter /\ [][NextCounter]_vars

(***************************************************************************)
(* The trend series: the hook useTrendData in its two forms.  The "fetch"  *)
(* hook reads the documents once per period (getDocs); the "listener" hook *)
(* subscribes to them (onSnapshot).  A calendar day is a day number, 0     *)
(* being the first day of the epoch year; documents are named by the       *)
(* formatted date.                                                         *)
(***************************************************************************)
Periods == { 7, 30, 90, 180, 365 }
TrendVariants == { "fetch", "listener" }
Epoch == [year |-> 2023, month |-> 1]

IsLeapYear(y) == (y % 4 = 0 /\ y % 100 # 0) \/ y % 400 = 0
DaysInMonth(y, m) ==
    IF m = 2 THEN (IF IsLeapYear(y) THEN 29 ELSE 28)
    ELSE IF m \in { 4, 6, 9, 11 } THEN 30
    ELSE 31

\* the calendar date n days after the first of month m of year y
RECURSIVE CivilFrom(_, _, _)
CivilFrom(y, m, n) ==
    IF n < DaysInMonth(y, m) THEN [year |-> y, month |-> m, day |-> n + 1]
    ELSE IF m = 12 THEN CivilFrom(y + 1, 1, n - DaysInMonth(y, m))
    ELSE CivilFrom(y, m + 1, n - DaysInMonth(y, m))

CalendarDate(n) == CivilFrom(Epoch.year, Epoch.month, n)
Pad2(k) == IF k < 10 THEN "0" \o NumberToString(k) ELSE NumberToString(k)

\* format(date, 'yyyy-MM-dd')
FormatDate(n) ==
    LET c == CalendarDate(n)
    IN  NumberToString(c.year) \o "-" \o Pad2(c.month) \o "-" \o Pad2(c.day)

\* subDays(date, amount)
SubDays(n, amount) == n - amount

\* the order of document names: by character code
CharOrder == "-0123456789"
CharRank(c) == CHOOSE k \in 1..Len(CharOrder) : SubSeq(CharOrder, k, k) = c
RECURSIVE StringGeq(_, _)
StringGeq(a, b) ==
    IF b = "" THEN TRUE
    ELSE IF a = "" THEN FALSE
    ELSE IF CharAt0(a) = CharAt0(b) THEN StringGeq(Slice1(a), Slice1(b))
    ELSE CharRank(CharAt0(a)) > CharRank(CharAt0(b))

\* orderBy('__name__')
RECURSIVE OrderedByName(_)
OrderedByName(docs) ==
    IF docs = {} THEN <<>>
    ELSE LET first == CHOOSE d \in docs : \A e \in docs : StringGeq(e.id, d.id)
         IN  << first >> \o OrderedByName(docs \ { first })

\* where('__name__', '>=', startDateStr), orderBy('__name__')
QuerySnapshot(docs, startDateStr) ==
    OrderedByName({ d \in docs : StringGeq(d.id, startDateStr) })

\* querySnapshot.forEach: trendData.push({date: doc.id, count: data.count || 0})
TrendDataOf(snapshot) ==
    [i \in 1..Len(snapshot) |-> [date |-> snapshot[i].id, count |-> OrZero(snapshot[i].count)]]

\* trendData.find((d) => d.date === date): <<>> or <<the first such entry>>
FindByDate(trend, date) ==
    LET hits == { i \in 1..Len(trend) : trend[i].date = date }
    IN  IF hits = {} THEN <<>>
        ELSE << trend[CHOOSE i \in hits : \A j \in hits : i <= j] >>

\* {date, count: existingData?.count || 0}
FilledEntry(trend, date) ==
    LET existingData == FindByDate(trend, date)
    IN  [date |-> date,
         count |-> IF existingData = <<>> THEN 0 ELSE OrZero(existingData[1].count)]

\* the fill loop, i from p - 1 down to 0, each turn reading the clock anew:
\* the turns with i < crossing run after a midnight that fell in the loop
FilledData(p, trend, now, crossing) ==
    [k \in 1..p |->
        LET i == p - k
            clockRead == IF i < crossing THEN now + 1 ELSE now
        IN  FilledEntry(trend, FormatDate(SubDays(clockRead, i)))]

\* startDateStr
StartDateStr(p) == FormatDate(SubDays(nowDay, p))

\* the day the runs start on: 2024-12-31, the last day of a leap year
StartDays == { 730 }
Doc(day, n) == [id |-> FormatDate(day), count |-> n]

\* the stored documents at the start, by the day it is
Histories(day) ==
    { {},
      { Doc(day, 2), Doc(day - 1, 5) },
      { Doc(day + 1, 4), Doc(day - 3, 0), Doc(day - 6, 1), Doc(day - 7, 4),
        Doc(day - 29, 3), Doc(day - 30, 9), Doc(day - 364, 2), Doc(day - 365, 7),
        Doc(day - 400, 6) } }

\* where a midnight can fall in the fill loop of period p (0: nowhere)
Crossings(p) == { 0, 1 }

otherThanTrend ==
    <<query, language, classifierVars, configVars, dashboardVars, callVars, formatterVars,
      counterVars, platformVars>>

\* the read or the listener the effect starts for the rendered period
NewFetch(p) ==
    IF trendVariant = "fetch"
    THEN [period |-> p, phase |-> "reading", startDateStr |-> StartDateStr(p), live |-> TRUE]
    ELSE [period |-> p, phase |-> "setup", startDateStr |-> "", live |-> TRUE]

InitTrend ==
    /\ query = ""
    /\ language = "en"
    /\ answer = ""
    /\ classifiedBy = "none"
    /\ verdict = "none"
    /\ apiKey = ""
    /\ isDevelopment = FALSE
    /\ apiModule = "chat"
    /\ IdleService
    /\ IdleFormatter
    /\ IdleCounter
    /\ IdlePlatform
    /\ trendVariant \in TrendVariants
    /\ trendUser \in BOOLEAN
    /\ dbReady \in BOOLEAN
    /\ period = 7
    /\ nowDay \in StartDays
    /\ history \in Histories(nowDay)
    /\ trendData = <<>>
    /\ trendLoading = (trendUser /\ (trendVariant = "listener" \/ dbReady))
    /\ trendError = IF trendUser /\ trendVariant = "fetch" /\ ~dbReady
                    THEN "Database not initialized"
                    ELSE ""
    /\ fetches = IF trendLoading THEN << NewFetch(period) >> ELSE <<>>
    /\ selections = 0
    /\ answered = <<>>

\* the cleanup of the effect: the listener hook unsubscribes what it can
CleanedUp(fs) ==
    IF trendVariant = "fetch" THEN fs
    ELSE LET Outlives(f) == ~(f.live /\ f.phase = "listening")
             kept == SelectSeq(fs, Outlives)
         IN  [i \in 1..Len(kept) |-> [kept[i] EXCEPT !.live = FALSE]]

\* the period buttons of the Dashboard, and the effect on [user, period]
SelectPeriod ==
    \E p \in Periods \ { period } :
        /\ selections < MaxSelections
        /\ selections' = selections + 1
        /\ period' = p
        /\ IF ~trendUser
           THEN /\ trendLoading' = FALSE
                /\ UNCHANGED <<trendError, fetches>>
           ELSE IF trendVariant = "fetch" /\ ~dbReady
           THEN /\ trendLoading' = FALSE
                /\ trendError' = "Database not initialized"
                /\ UNCHANGED fetches
           ELSE /\ trendLoading' = TRUE
                /\ trendError' = ""
                /\ fetches' = Append(CleanedUp(fetches), NewFetch(p))
        /\ UNCHANGED <<trendVariant, trendUser, dbReady, nowDay, history, trendData, answered>>
        /\ UNCHANGED otherThanTrend

\* what a read or a snapshot of request f sets as data
Delivered(f, crossing) ==
    FilledData(f.period, TrendDataOf(QuerySnapshot(history, f.startDateStr)), nowDay,
               crossing)

Deliver(f, crossing) ==
    /\ crossing # 0 => nowDay \in StartDays
    /\ trendData' = Delivered(f, crossing)
    /\ nowDay' = IF crossing = 0 THEN nowDay ELSE nowDay + 1
    /\ answered' = << [period |-> f.period, day |-> nowDay, crossing |-> crossing,
                       docs |-> history] >>
    /\ trendLoading' = FALSE

\* fetchTrendData after getDocs resolved
FetchCompletes ==
    \E i \in DOMAIN fetches : \E crossing \in Crossings(fetches[i].period) :
        /\ fetches[i].phase = "reading"
        /\ Deliver(fetches[i], crossing)
        /\ fetches' = Without(fetches, i)
        /\ UNCHANGED <<trendVariant, trendUser, dbReady, period, history, trendError,
                       selections>>
        /\ UNCHANGED otherThanTrend

\* fetchTrendData after getDocs rejected
FetchFails ==
    \E i \in DOMAIN fetches :
        /\ fetches[i].phase = "reading"
        /\ trendError' = "Failed to load trend data"
        /\ trendLoading' = FALSE
        /\ fetches' = Without(fetches, i)
        /\ UNCHANGED <<trendVariant, trendUser, dbReady, period, nowDay, history,
                       trendData, selections, answered>>
        /\ UNCHANGED otherThanTrend

\* setupListener after getFirebaseDb: the query is built and subscribed
ListenerSubscribes ==
    \E i \in DOMAIN fetches :
        /\ fetches[i].phase = "setup"
        /\ dbReady
        /\ fetches' = [fetches EXCEPT ![i].phase = "listening",
                                      ![i].startDateStr = StartDateStr(fetches[i].period)]
        /\ UNCHANGED <<trendVariant, trendUser, dbReady, period, nowDay, history,
                       trendData, trendLoading, trendError, selections, answered>>
        /\ UNCHANGED otherThanTrend

\* setupListener's catch: getFirebaseDb rejected
ListenerSetupFails ==
    \E i \in DOMAIN fetches :
        /\ fetches[i].phase = "setup"
        /\ trendError' = "Failed to initialize database connection"
        /\ trendLoading' = FALSE
        /\ fetches' = Without(fetches, i)
        /\ UNCHANGED <<trendVariant, trendUser, dbReady, period, nowDay, history,
                       trendData, selections, answered>>
        /\ UNCHANGED otherThanTrend

\* onSnapshot's first callback: the first snapshot or a later one
ListenerSnapshot ==
    \E i \in DOMAIN fetches : \E crossing \in Crossings(fetches[i].period) :
        /\ fetches[i].phase = "listening"
        /\ Deliver(fetches[i], crossing)
        /\ UNCHANGED <<trendVariant, trendUser, dbReady, period, history, trendError,
                       fetches, selections>>
        /\ UNCHANGED otherThanTrend

\* onSnapshot's second callback: the listener ends with an error
ListenerError ==
    \E i \in DOMAIN fetches :
        /\ fetches[i].phase = "listening"
        /\ trendError' = "Failed to load trend data"
        /\ trendLoading' = FALSE
        /\ fetches' = Without(fetches, i)
        /\ UNCHANGED <<trendVariant, trendUser, dbReady, period, nowDay, history,
                       trendData, selections, answered>>
        /\ UNCHANGED otherThanTrend

\* the counter stores a count for the day it is
CounterStores ==
    /\ trendUser
    /\ \A d \in history : d.id # FormatDate(nowDay)
    /\ history' = history \cup { Doc(nowDay, 1) }
    /\ UNCHANGED <<trendVariant, trendUser, dbReady, period, nowDay, trendData,
                   trendLoading, trendError, fetches, selections, answered>>
    /\ UNCHANGED otherThanTrend

\* the calendar day ends with no fill loop running
TrendMidnight ==
    /\ nowDay \in StartDays
    /\ nowDay' = nowDay + 1
    /\ UNCHANGED <<trendVariant, trendUser, dbReady, period, history, trendData,
                   trendLoading, trendError, fetches, selections, answered>>
    /\ UNCHANGED otherThanTrend

NextTrend ==
    \/ SelectPeriod
    \/ FetchCompletes
    \/ FetchFails
    \/ ListenerSubscribes
    \/ ListenerSetupFails
    \/ ListenerSnapshot
    \/ ListenerError
    \/ CounterStores
    \/ TrendMidnight

SpecTrend == InitTrend /\ [][NextTrend]_vars

(***************************************************************************)
(* The Firestore security rules.  A request names who asks (auth), what    *)
(* for (method), which document (path below /databases/{db}/documents)     *)
(* and, for create and update, the document it would leave                 *)
(* (request.resource.data).  The allow statements that match a document    *)
(* are alternatives: the request is allowed when any of them holds.        *)
(***************************************************************************)
ReadMethods == { "get", "list" }
WriteMethods == { "create", "update", "delete" }

\* a field value: its type, its number when it is an int, its text otherwise
IntValue(n) == [type |-> "int", number |-> n, text |-> ""]
FloatValue(text) == [type |-> "float", number |-> 0, text |-> text]
StringValue(text) == [type |-> "string", number |-> 0, text |-> text]
TimestampValue == [type |-> "timestamp", number |-> 0, text |-> "serverTimestamp"]

\* request.auth != null
IsAuthenticated(req, userId) == req.auth # <<>>
\* request.auth != null && request.auth.uid == userId
IsOwner(req, userId) == req.auth # <<>> /\ req.auth[1] = userId

\* match /users/{userId}: allow read, write
UserDocAllows(req, userId) ==
    /\ req.method \in ReadMethods \cup WriteMethods
    /\ IsOwner(req, userId)

\* match /dailyCounts/{date}: allow read, write
DailyCountAllows(req, userId) ==
    /\ req.method \in ReadMethods \cup WriteMethods
    /\ IsOwner(req, userId)

\* data.keys().hasAll(['count', 'ts']) && data.count is int && data.count >= 0
ValidDailyCount(data) ==
    /\ { "count", "ts" } \subseteq DOMAIN data
    /\ data.count.type = "int"
    /\ data.count.number >= 0

\* match /dailyCounts/{date}: allow create, update
DailyCountValidatedAllows(req, userId) ==
    /\ req.method \in { "create", "update" }
    /\ IsOwner(req, userId)
    /\ ValidDailyCount(req.data)

\* the rules as a whole: a document no match block names is denied
Allowed(req) ==
    LET p == req.path
    IN  \/ /\ Len(p) = 2
           /\ p[1] = "users"
           /\ UserDocAllows(req, p[2])
        \/ /\ Len(p) = 4
           /\ p[1] = "users"
           /\ p[3] = "dailyCounts"
           /\ (DailyCountAllows(req, p[2]) \/ DailyCountValidatedAllows(req, p[2]))

Auths == { <<>>, << "alice" >>, << "bob" >> }
Paths ==
    { << "users", "alice" >>, << "users", "bob" >>,
      << "users", "bob", "dailyCounts", "2024-12-31" >>,
      << "users", "alice", "dailyCounts", "2024-12-31" >>,
      << "users", "bob", "notes", "n1" >>,
      << "users", "bob", "dailyCounts", "2024-12-31", "edits", "e1" >>,
      << "shared", "s1" >> }
Documents ==
    { [count |-> IntValue(1), ts |-> TimestampValue],
      [count |-> IntValue(0), ts |-> TimestampValue],
      [count |-> IntValue(0 - 1), ts |-> TimestampValue],
      [count |-> FloatValue("1.5"), ts |-> TimestampValue],
      [count |-> StringValue("3"), ts |-> TimestampValue],
      [count |-> IntValue(2)],
      [ts |-> TimestampValue],
      [count |-> IntValue(4), ts |-> TimestampValue, note |-> StringValue("x")],
      <<>> }
Requests ==
    { [auth |-> a, method |-> m, path |-> p, data |-> <<>>] :
        a \in Auths, m \in ReadMethods \cup { "delete" }, p \in Paths }
    \cup { [auth |-> a, method |-> m, path |-> p, data |-> d] :
             a \in Auths, m \in { "create", "update" }, p \in Paths, d \in Documents }

otherThanRules ==
    <<query, language, classifierVars, configVars, dashboardVars, callVars, formatterVars,
      counterVars, trendVars, workerVars, networkVars, waitVars, firebaseVars>>

InitRules ==
    /\ query = ""
    /\ language = "en"
    /\ answer = ""
    /\ classifiedBy = "none"
    /\ verdict = "none"
    /\ apiKey = ""
    /\ isDevelopment = FALSE
    /\ apiModule = "chat"
    /\ IdleService
    /\ IdleFormatter
    /\ IdleCounter
    /\ IdleTrend
    /\ IdleWorker
    /\ IdleNetwork
    /\ IdleWait
    /\ IdleFirebase
    /\ request \in Requests
    /\ decision = "none"

\* Firestore evaluates the rules on the request
EvaluateRequest ==
    /\ decision = "none"
    /\ decision' = IF Allowed(request) THEN "allow" ELSE "deny"
    /\ UNCHANGED request
    /\ UNCHANGED otherThanRules

NextRules == EvaluateRequest

SpecRules == InitRules /\ [][NextRules]_vars

(***************************************************************************)
(* The offline hook with the connection to Firestore: while it is lost     *)
(* every setDoc rejects, while it is there every setDoc resolves, and the  *)
(* Dashboard calls syncOfflineData when the browser reports 'online'.      *)
(* Every promise settles and a lost connection comes back.                 *)
(***************************************************************************)
otherThanSync ==
    <<query, language, classifierVars, configVars, dashboardVars, callVars, formatterVars,
      trendVars, rulesVars, workerVars, waitVars, firebaseVars>>

\* Dashboard.tsx has no listener of 'online'; the Dashboard of part_006 has
InitSync ==
    /\ query = ""
    /\ language = "en"
    /\ answer = ""
    /\ classifiedBy = "none"
    /\ verdict = "none"
    /\ apiKey = ""
    /\ isDevelopment = FALSE
    /\ apiModule = "chat"
    /\ IdleService
    /\ IdleFormatter
    /\ IdleTrend
    /\ IdleRules
    /\ IdleWorker
    /\ IdleWait
    /\ IdleFirebase
    /\ InitHook
    /\ signedIn
    /\ hookVariant = "offline"
    /\ online = TRUE
    /\ outages = 0
    /\ listensOnline \in BOOLEAN
    /\ changedOffline = FALSE

SyncIncrement ==
    /\ IncrementCall
    /\ changedOffline' = ~online
    /\ UNCHANGED <<online, outages, listensOnline>>
    /\ UNCHANGED otherThanSync

SyncDecrement ==
    /\ DecrementCall
    /\ changedOffline' = IF DecrementBlocked THEN changedOffline ELSE ~online
    /\ UNCHANGED <<online, outages, listensOnline>>
    /\ UNCHANGED otherThanSync

SyncWriteCompletes == online /\ WriteCompletes

SyncWriteFails == ~online /\ WriteFails

ConnectionLost ==
    /\ online
    /\ outages < MaxOutages
    /\ online' = FALSE
    /\ outages' = outages + 1
    /\ changedOffline' = FALSE
    /\ UNCHANGED listensOnline
    /\ UNCHANGED counterVars
    /\ UNCHANGED otherThanSync

\* the browser reports 'online': handleOnline runs where it is registered
HandleOnline ==
    /\ ~online
    /\ online' = TRUE
    /\ IF listensOnline
       THEN SyncOfflineDataCall
       ELSE UNCHANGED <<signedIn, hookVariant, clock, today, count, loading, pendingSync,
                        localStorage, dailyCounts, loads, runningSum, freshDay,
                        writeFailed, lastCall, writes>>
    /\ UNCHANGED <<outages, counterCalls, listensOnline, changedOffline>>
    /\ UNCHANGED otherThanSync

NextSync ==
    \/ LoadCompletes
    \/ SyncIncrement
    \/ SyncDecrement
    \/ SyncWriteCompletes
    \/ SyncWriteFails
    \/ ConnectionLost
    \/ HandleOnline

SpecSync ==
    /\ InitSync
    /\ [][NextSync]_vars
    /\ WF_vars(LoadCompletes)
    /\ WF_vars(SyncWriteCompletes)
    /\ WF_vars(SyncWriteFails)
    /\ WF_vars(HandleOnline)

(***************************************************************************)
(* The service worker: the fetch handler of public/sw.js and of its later  *)
(* form at the end of public/config.js, with the requests the pages send:  *)
(* GETs of the application's files and the POSTs of the verification       *)
(* service.  The Cache API matches and stores GET requests only.           *)
(***************************************************************************)
WorkerVariants == { "sw", "config" }
Origin == "https://hisabdaily.com"
ProxyUrl == "/api/deed-checker"
ReminderUrl == "https://reminder.dev/api/search"
urlsToCache == { "/", "/manifest.json" }
AssetUrls == { "/", "/assets/index.js", "/config.js" }

\* the URL starts with a scheme: another origin than the page's
IsCrossOrigin(url) == Len(url) >= 8 /\ SubSeq(url, 1, 8) = "https://"
\* Response.type of what the network returned
ResponseType(url) == IF IsCrossOrigin(url) THEN "cors" ELSE "basic"

\* apiUrl and body of verifyDeedWithReminderDev
VerifyUrl == IF isDevelopment THEN ReminderUrl ELSE ProxyUrl
question(q) ==
    "Is " \o q \o " permissible (halal) or forbidden (haram) in Islam?"
      \o " Please provide evidence from Quran and Hadith."
VerifyBody(q) == IF isDevelopment THEN question(q) ELSE q

\* Cache.match and Cache.put take no request whose method is not GET
CacheApiTakesAny(method) == TRUE
CacheApiTakes(method) == method = "GET"

\* caches.match(event.request): <<>> or <<the stored response>>
CacheMatch(req) ==
    LET hits == { c \in cacheStorage : c.url = req.url }
    IN  IF CacheApiTakes(req.method) /\ hits # {}
        THEN << (CHOOSE c \in hits : TRUE).response >>
        ELSE <<>>

\* the handler passes the response on without storing it
NotStored(req, res) ==
    \/ res.status # 200
    \/ res.type # "basic"
    \/ (workerVariant = "config" /\ req.method # "GET")

\* cache.put(event.request, responseToCache)
CacheAfterPut(req, res) ==
    IF NotStored(req, res) \/ ~CacheApiTakes(req.method) THEN cacheStorage
    ELSE { c \in cacheStorage : c.url # req.url } \cup { [url |-> req.url, response |-> res] }

\* the config form answers /config.js from the network only
BypassesCache(req) == workerVariant = "config" /\ req.url = "/config.js"

WorkerQueries == { "fasting", "wine" }

otherThanWorker ==
    <<query, language, classifierVars, apiKey, apiModule, dashboardVars, callVars,
      formatterVars, counterVars, trendVars, rulesVars, networkVars, waitVars,
      firebaseVars>>

Precached(url) ==
    [url |-> url, response |-> [status |-> 200, type |-> "basic", of |-> 0]]

\* after the install event: cache.addAll(urlsToCache)
InitWorker ==
    /\ query = ""
    /\ language = "en"
    /\ answer = ""
    /\ classifiedBy = "none"
    /\ verdict = "none"
    /\ apiKey = ""
    /\ isDevelopment \in BOOLEAN
    /\ apiModule = "chat"
    /\ IdleService
    /\ IdleFormatter
    /\ IdleCounter
    /\ IdleTrend
    /\ IdleRules
    /\ IdleNetwork
    /\ IdleWait
    /\ IdleFirebase
    /\ workerVariant \in WorkerVariants
    /\ cacheStorage = { Precached(url) : url \in urlsToCache }
    /\ events = <<>>
    /\ served = <<>>
    /\ eventCount = 0

Raise(method, url, body) ==
    /\ eventCount < MaxEvents
    /\ eventCount' = eventCount + 1
    /\ events' = Append(events, [id |-> eventCount + 1, method |-> method, url |-> url,
                                 body |-> body, phase |-> "matching"])
    /\ UNCHANGED <<workerVariant, cacheStorage, served, isDevelopment>>
    /\ UNCHANGED otherThanWorker

\* verifyDeedWithReminderDev: fetch(apiUrl, {method: 'POST', body})
VerifyFetch ==
    \E q \in WorkerQueries : Raise("POST", VerifyUrl, VerifyBody(q))

\* the page loads one of its files
AssetFetch ==
    \E url \in AssetUrls : Raise("GET", url, "")

Serve(i, source, res) ==
    /\ served' = Append(served, [id |-> events[i].id, method |-> events[i].method,
                                 url |-> events[i].url, body |-> events[i].body,
                                 source |-> source, response |-> res])
    /\ events' = Without(events, i)

\* the fetch handler up to the answer of caches.match
WorkerMatches ==
    \E i \in DOMAIN events :
        /\ events[i].phase = "matching"
        /\ IF BypassesCache(events[i])
           THEN /\ events' = [events EXCEPT ![i].phase = "fetching"]
                /\ UNCHANGED served
           ELSE IF CacheMatch(events[i]) # <<>>
           THEN Serve(i, "cache", CacheMatch(events[i])[1])
           ELSE /\ events' = [events EXCEPT ![i].phase = "fetching"]
                /\ UNCHANGED served
        /\ UNCHANGED <<workerVariant, cacheStorage, eventCount, isDevelopment>>
        /\ UNCHANGED otherThanWorker

\* fetch(event.request) resolves: the response is stored or passed on
NetworkResponds ==
    \E i \in DOMAIN events : \E status \in { 200, 500 } :
        LET res == [status |-> status, type |-> ResponseType(events[i].url),
                    of |-> events[i].id]
        IN  /\ events[i].phase = "fetching"
            /\ cacheStorage' = IF BypassesCache(events[i]) THEN cacheStorage
                               ELSE CacheAfterPut(events[i], res)
            /\ Serve(i, "network", res)
            /\ UNCHANGED <<workerVariant, eventCount, isDevelopment>>
            /\ UNCHANGED otherThanWorker

\* fetch(event.request) rejects: config.js is answered 503, the rest fails
NetworkFails ==
    \E i \in DOMAIN events :
        /\ events[i].phase = "fetching"
        /\ Serve(i, IF BypassesCache(events[i]) THEN "worker" ELSE "error",
                 [status |-> IF BypassesCache(events[i]) THEN 503 ELSE 0,
                  type |-> IF BypassesCache(events[i]) THEN "default" ELSE "error",
                  of |-> events[i].id])
        /\ UNCHANGED <<workerVariant, cacheStorage, eventCount, isDevelopment>>
        /\ UNCHANGED otherThanWorker

NextWorker ==
    \/ VerifyFetch
    \/ AssetFetch
    \/ WorkerMatches
    \/ NetworkResponds
    \/ NetworkFails

SpecWorker == InitWorker /\ [][NextWorker]_vars

(***************************************************************************)
(* Waiting for the runtime configuration: waitForRuntimeConfig of          *)
(* lib/firebase.ts and of part_010, waitForConfig of part_011.  config.js  *)
(* may set window.__FIREBASE_CONFIG__ at any moment, with or without the   *)
(* API key, or never.  A timeout that was set fires.                       *)
(***************************************************************************)
WaitVariants == { "firebase.ts", "part_010", "part_011" }
Hostnames == { "localhost", "127.0.0.1", "hisabdaily.com" }

\* maxAttempts, and the attempts after which a local host stops waiting
maxAttempts == 100
maxAttemptsPart010 == 40
devAttempts == 10
devAttemptsPart010 == 6

MaxAttemptsOf(variant) == IF variant = "firebase.ts" THEN maxAttempts ELSE maxAttemptsPart010
DevAttemptsOf(variant) == IF variant = "firebase.ts" THEN devAttempts ELSE devAttemptsPart010

IsLocalHost(name) == name = "localhost" \/ name = "127.0.0.1"

\* the test of checkConfig that ends the wait with the configuration found
ConfigFound ==
    IF waitVariant = "part_011"
    THEN runtimeConfig # "absent"
    ELSE runtimeConfig = "complete"

\* checkConfig gives up: the counted variants only
GivesUp(n) ==
    /\ waitVariant # "part_011"
    /\ \/ n >= MaxAttemptsOf(waitVariant)
       \/ (IsLocalHost(hostname) /\ n >= DevAttemptsOf(waitVariant))

otherThanWait ==
    <<query, language, classifierVars, configVars, dashboardVars, callVars, formatterVars,
      counterVars, trendVars, rulesVars, workerVars, networkVars, firebaseVars>>

InitWait ==
    /\ query = ""
    /\ language = "en"
    /\ answer = ""
    /\ classifiedBy = "none"
    /\ verdict = "none"
    /\ apiKey = ""
    /\ isDevelopment = FALSE
    /\ apiModule = "chat"
    /\ IdleService
    /\ IdleFormatter
    /\ IdleCounter
    /\ IdleTrend
    /\ IdleRules
    /\ IdleWorker
    /\ IdleNetwork
    /\ IdleFirebase
    /\ waitVariant \in WaitVariants
    /\ hostname \in Hostnames
    /\ devBuild \in BOOLEAN
    /\ devBuild => IsLocalHost(hostname)
    /\ runtimeConfig \in { "absent", "complete" }
    /\ attempts = 0
    /\ waitState = "called"
    /\ polls = 0

\* one run of checkConfig
CheckConfig ==
    /\ attempts' = IF waitVariant = "part_011" THEN attempts ELSE attempts + 1
    /\ IF ConfigFound \/ GivesUp(attempts')
       THEN /\ waitState' = "resolved"
            /\ UNCHANGED polls
       ELSE /\ waitState' = "scheduled"
            /\ polls' = IF polls < MaxPolls THEN polls + 1 ELSE polls

\* the executor of the promise: up to the first timeout or the resolve
WaitCalled ==
    /\ waitState = "called"
    /\ IF waitVariant = "part_010" /\ devBuild
       THEN /\ waitState' = "resolved"
            /\ UNCHANGED <<attempts, polls>>
       ELSE IF waitVariant = "part_011"
       THEN /\ waitState' = "scheduled"
            /\ UNCHANGED <<attempts, polls>>
       ELSE CheckConfig
    /\ UNCHANGED <<waitVariant, hostname, devBuild, runtimeConfig>>
    /\ UNCHANGED otherThanWait

\* the timeout (in part_011 at first DOMContentLoaded or 10 ms) fires
TimeoutFires ==
    /\ waitState = "scheduled"
    /\ CheckConfig
    /\ UNCHANGED <<waitVariant, hostname, devBuild, runtimeConfig>>
    /\ UNCHANGED otherThanWait

\* config.js runs and sets window.__FIREBASE_CONFIG__
ConfigScriptRuns ==
    /\ runtimeConfig = "absent"
    /\ runtimeConfig' \in { "empty", "complete" }
    /\ UNCHANGED <<waitVariant, hostname, devBuild, attempts, waitState, polls>>
    /\ UNCHANGED otherThanWait

NextWait ==
    \/ WaitCalled
    \/ TimeoutFires
    \/ ConfigScriptRuns

SpecWait ==
    /\ InitWait
    /\ [][NextWait]_vars
    /\ WF_vars(WaitCalled)
    /\ WF_vars(TimeoutFires)

(***************************************************************************)
(* initializeFirebase of lib/firebase.ts and of part_010, called by        *)
(* getFirebaseAuth, getFirebaseDb and the components at any moment.  The   *)
(* wait for the configuration is one step here; the configuration found    *)
(* is valid or not, and initializeApp, getAuth and getFirestore may throw. *)
(***************************************************************************)
FirebaseVariants == { "firebase.ts", "part_010" }
SdkCalls == { "initializeApp", "getAuth", "getFirestore" }

\* if (initializationPromise) return initializationPromise;
StartsAttemptAlways(promise) == TRUE
StartsAttempt(promise) == promise = 0

Pending == [state |-> "pending", auth |-> 0, db |-> 0]

\* the catch of the attempt: everything is reset and the promise rejects
ResetOnFailure(i) ==
    /\ app' = 0
    /\ auth' = 0
    /\ db' = 0
    /\ initializationPromise' = 0
    /\ promises' = [promises EXCEPT ![running[i].id].state = "rejected"]
    /\ running' = Without(running, i)

\* if (!db) db = getFirestore(app); return { auth, db }
Finish(i, appNow, authNow, throws) ==
    IF db = 0 /\ "getFirestore" \in throws
    THEN ResetOnFailure(i) /\ UNCHANGED initLog
    ELSE /\ app' = appNow
         /\ auth' = authNow
         /\ db' = IF db = 0 THEN running[i].id ELSE db
         /\ promises' = [promises EXCEPT ![running[i].id] =
                             [state |-> "resolved", auth |-> authNow, db |-> db']]
         /\ running' = Without(running, i)
         /\ UNCHANGED <<initializationPromise, initLog>>

\* the configuration after the reload of config.js that firebase.ts tries
\* away from a local host
ValidConfigs(reloaded) ==
    IF envConfig = "valid" THEN { TRUE }
    ELSE IF firebaseVariant = "firebase.ts" /\ ~IsLocalHost(hostname)
    THEN { reloaded }
    ELSE { FALSE }

otherThanFirebase ==
    <<query, language, classifierVars, configVars, dashboardVars, callVars, formatterVars,
      counterVars, trendVars, rulesVars, workerVars, networkVars, waitVariant, devBuild,
      runtimeConfig, attempts, waitState, polls>>

InitFirebase ==
    /\ query = ""
    /\ language = "en"
    /\ answer = ""
    /\ classifiedBy = "none"
    /\ verdict = "none"
    /\ apiKey = ""
    /\ isDevelopment = FALSE
    /\ apiModule = "chat"
    /\ IdleService
    /\ IdleFormatter
    /\ IdleCounter
    /\ IdleTrend
    /\ IdleRules
    /\ IdleWorker
    /\ IdleNetwork
    /\ waitVariant = "firebase.ts"
    /\ hostname \in { "localhost", "hisabdaily.com" }
    /\ devBuild = FALSE
    /\ runtimeConfig = "absent"
    /\ attempts = 0
    /\ waitState = "resolved"
    /\ polls = 0
    /\ firebaseVariant \in FirebaseVariants
    /\ envConfig \in { "valid", "invalid" }
    /\ app = 0
    /\ auth = 0
    /\ db = 0
    /\ initializationPromise = 0
    /\ running = <<>>
    /\ promises = <<>>
    /\ awaiting = <<>>
    /\ received = <<>>
    /\ initLog = <<>>

\* a call of initializeFirebase, up to the await of the wait
InitializeFirebase ==
    /\ Len(awaiting) + Len(received) < MaxInitCalls
    /\ IF StartsAttempt(initializationPromise)
       THEN /\ promises' = Append(promises, Pending)
            /\ initializationPromise' = Len(promises) + 1
            /\ running' = Append(running, [id |-> Len(promises) + 1, pc |-> "waiting"])
            /\ awaiting' = Append(awaiting, Len(promises) + 1)
       ELSE /\ awaiting' = Append(awaiting, initializationPromise)
            /\ UNCHANGED <<promises, initializationPromise, running>>
    /\ UNCHANGED <<firebaseVariant, envConfig, app, auth, db, received, initLog, hostname>>
    /\ UNCHANGED otherThanFirebase

\* the attempt after waitForRuntimeConfig, up to the await of setPersistence
\* or, with auth already there, to its end
Configure ==
    \E i \in DOMAIN running : \E reloaded \in BOOLEAN : \E throws \in SUBSET SdkCalls :
        /\ running[i].pc = "waiting"
        /\ Cardinality(throws) <= 1
        /\ \E valid \in ValidConfigs(reloaded) :
              IF ~valid
                 \/ (app = 0 /\ "initializeApp" \in throws)
                 \/ (auth = 0 /\ "getAuth" \in throws)
              THEN ResetOnFailure(i) /\ UNCHANGED <<initLog, received, awaiting>>
              ELSE IF auth = 0
              THEN /\ app' = IF app = 0 THEN running[i].id ELSE app
                   /\ auth' = running[i].id
                   /\ initLog' = IF app = 0 THEN Append(initLog, running[i].id) ELSE initLog
                   /\ running' = [running EXCEPT ![i].pc = "persisting"]
                   /\ UNCHANGED <<db, initializationPromise, promises, received, awaiting>>
              ELSE /\ Finish(i, IF app = 0 THEN running[i].id ELSE app, auth, throws)
                   /\ UNCHANGED <<received, awaiting>>
        /\ UNCHANGED <<firebaseVariant, envConfig, hostname>>
        /\ UNCHANGED otherThanFirebase

\* setPersistence settles (a rejection is caught): the attempt runs to its end
PersistenceSettles ==
    \E i \in DOMAIN running : \E throws \in { {}, { "getFirestore" } } :
        /\ running[i].pc = "persisting"
        /\ Finish(i, app, auth, throws)
        /\ UNCHANGED <<firebaseVariant, envConfig, received, awaiting, hostname>>
        /\ UNCHANGED otherThanFirebase

\* a caller's await of the promise ends
CallerReceives ==
    \E j \in DOMAIN awaiting :
        /\ promises[awaiting[j]].state # "pending"
        /\ received' = Append(received, [promise |-> awaiting[j],
                                         state |-> promises[awaiting[j]].state,
                                         auth |-> promises[awaiting[j]].auth,
                                         db |-> promises[awaiting[j]].db])
        /\ awaiting' = Without(awaiting, j)
        /\ UNCHANGED <<firebaseVariant, envConfig, app, auth, db, initializationPromise,
                       running, promises, initLog, hostname>>
        /\ UNCHANGED otherThanFirebase

\* the environment is repaired between two attempts
ConfigRepaired ==
    /\ envConfig = "invalid"
    /\ envConfig' = "valid"
    /\ UNCHANGED <<firebaseVariant, app, auth, db, initializationPromise, running,
                   promises, awaiting, received, initLog, hostname>>
    /\ UNCHANGED otherThanFirebase

NextFirebase ==
    \/ InitializeFirebase
    \/ Configure
    \/ PersistenceSettles
    \/ CallerReceives
    \/ ConfigRepaired

SpecFirebase == InitFirebase /\ [][NextFirebase]_vars

(***************************************************************************)
(* Properties of the classifiers (checked under SpecClassifier).           *)
(***************************************************************************)
lowerAnswer == ToLowerCase(answer)
ReminderClassified == classifiedBy \in {"reminderDev", "handler"}
HasUncertaintyMarker == IncludesAny(lowerAnswer, uncertaintyIndicators)
HasPermissibleMarker == IncludesAny(lowerAnswer, clearlyPermissible)
HasForbiddenMarker == IncludesAny(lowerAnswer, clearlyForbidden)
NumPermissible == Cardinality({i \in 1..Len(clearlyPermissible) : Includes(lowerAnswer, clearlyPermissible[i])})
NumForbidden == Cardinality({i \in 1..Len(clearlyForbidden) : Includes(lowerAnswer, clearlyForbidden[i])})
\* some query word longer than 3 characters occurs in the answer
SharesKeyword ==
    \E i \in 1..Len(SplitSpace(ToLowerCase(query))) :
        LET w == SplitSpace(ToLowerCase(query))[i]
        IN  Len(w) > 3 /\ Includes(lowerAnswer, w)

C5_NoMarkerIsSin ==
    (ReminderClassified /\ ~HasUncertaintyMarker /\ ~HasPermissibleMarker
        /\ ~HasForbiddenMarker) => verdict = "sin"

C5_Witness ==
    /\ classifiedBy = "handler"
    /\ answer # ""
    /\ ~HasUncertaintyMarker /\ ~HasPermissibleMarker /\ ~HasForbiddenMarker
    /\ verdict = "sin"

\* C6: more permissible than forbidden markers, at least one permissible
\* marker, no uncertainty marker and a shared keyword longer than 3
\* characters give not_sin.
C6_ClearPermissibleIsNotSin ==
    (ReminderClassified /\ NumPermissible > NumForbidden /\ NumPermissible > 0
        /\ ~HasUncertaintyMarker /\ SharesKeyword) => verdict = "not_sin"

C6_Witness ==
    /\ classifiedBy = "handler"
    /\ NumPermissible > NumForbidden
    /\ NumForbidden > 0
    /\ ~HasUncertaintyMarker
    /\ SharesKeyword
    /\ verdict = "not_sin"

\* C7: not_sin is returned only when the permissible markers strictly
\* outnumber the forbidden ones and the answer shares a keyword with the query.
C7_NotSinOnlyWhenClearAndOnTopic ==
    (ReminderClassified /\ verdict = "not_sin")
        => (NumPermissible > NumForbidden /\ SharesKeyword)

C7_Witness ==
    /\ classifiedBy = "reminderDev"
    /\ NumPermissible = NumForbidden
    /\ NumPermissible > 0
    /\ ~HasUncertaintyMarker
    /\ SharesKeyword
    /\ verdict = "sin"

\* the answer holds none of the keywords the Fanar verdict scan looks for
NoFanarKeyword ==
    IF language = "ar"
    THEN ~IncludesAny(lowerAnswer, fanarArabicForbidden)
         /\ ~IncludesAny(lowerAnswer, fanarArabicPermissible)
    ELSE ~IncludesAny(lowerAnswer, fanarForbidden)
         /\ ~IncludesAny(lowerAnswer, fanarPermissible)
         /\ ~Includes(lowerAnswer, "sin")

\* C8: on the Fanar path an answer with no ruling keyword (no clear signal)
\* gets the verdict sin.
C8_FanarSilenceIsSin ==
    (classifiedBy = "fanar" /\ NoFanarKeyword) => verdict = "sin"

(***************************************************************************)
(* Properties of the verification service, checked under SpecVerify.       *)
(***************************************************************************)
Verdicts == {"sin", "not_sin", "contradictory"}
ServiceEntries == {"hybrid", "reminderDev"}
ValidResult(r) ==
    /\ r.verdict \in Verdicts
    /\ \A i \in 1..Len(r.evidence) : r.evidence[i].source # ""
    /\ Len(r.summary) = 1

\* C1: verifyDeedHybrid and verifyDeedWithReminderDev never reject: whatever
\* the providers answer, and also when every one of them fails, the call
\* resolves to a result object.
C1_ServiceNeverRejects ==
    (entry \in ServiceEntries /\ pc = "done")
        => (settled = "resolved" /\ Len(result) = 1 /\ ValidResult(result[1]))

C1_Witness ==
    /\ entry = "hybrid"
    /\ pc = "done"
    /\ failed = <<"fanar", "proxy">>
    /\ settled = "resolved"

\* the calls of an invocation that went to a provider of verdicts
IsProvider(c) == c \in {"fanar", "reminder"}
EveryProviderFailed ==
    /\ calls # <<>>
    /\ \A i \in 1..Len(calls) :
          IsProvider(calls[i]) => \E j \in 1..Len(failed) : failed[j] = calls[i]
    /\ (\A i \in 1..Len(calls) : ~IsProvider(calls[i]))
          => \E j \in 1..Len(failed) : failed[j] = "proxy"

C3_UiOnlySeesValidResult ==
    /\ (entry = "dashboard" /\ pc = "done")
          => (settled = "resolved" /\ Len(result) = 1 /\ ValidResult(result[1]))
    /\ toast # "Failed to verify deed. Please try again."

\* C9: within one call of verifyDeedHybrid the providers are tried in order
\* and one after the other: Reminder.dev is called only after the call to
\* Fanar has ended without success, the two calls are never in flight
\* together, and no provider is called twice.
C9_ProvidersInOrderOneAtATime ==
    entry = "hybrid" =>
        /\ ~("fanar" \in inFlight /\ inFlight \cap {"reminder", "proxy"} # {})
        /\ \A i, j \in 1..Len(calls) : calls[i] = calls[j] => i = j
        /\ \A j \in 1..Len(calls) : calls[j] = "fanar" => j = 1
        /\ (Len(calls) > 1 /\ calls[1] = "fanar")
              => (failed # <<>> /\ failed[1] = "fanar" /\ "fanar" \notin inFlight)

C9_Witness ==
    /\ entry = "hybrid"
    /\ calls = <<"fanar", "reminder">>
    /\ inFlight = {"reminder"}
    /\ failed = <<"fanar">>

EndsWith(s, suffix) ==
    Len(s) >= Len(suffix) /\ SubSeq(s, Len(s) - Len(suffix) + 1, Len(s)) = suffix
Formatters == {"client", "handler", "lib"}
SnippetBound == IF producedBy = "handler" THEN handlerSnippetMaxLength ELSE snippetMaxLength
EntryOf(ref) ==
    [source |-> CitationLabel(ref),
     snippet |-> IF producedBy = "handler" THEN HandlerSnippet(ref.text)
                 ELSE ClientSnippet(ref.text)]
\* the snippet is not the text of a reference as it came: it was cut
Truncated(e) ==
    \A j \in 1..Len(upstreamReferences) : upstreamReferences[j].text # e.snippet

\* C11: no entry a formatter returns has a snippet longer than the bound of
\* that formatter (180 in the client, 300 in the proxy).
C11_SnippetWithinBound ==
    producedBy \in Formatters
        => \A i \in 1..Len(evidenceOut) : Len(evidenceOut[i].snippet) <= SnippetBound

\* C12: every snippet a formatter has truncated ends in "...".
C12_TruncatedEndsInEllipsis ==
    producedBy \in {"client", "handler"}
        => \A i \in 1..Len(evidenceOut) :
              Truncated(evidenceOut[i]) => EndsWith(evidenceOut[i].snippet, "...")

\* C12, as the code has it: a truncated snippet ends in "...", or, in the
\* proxy only, it was cut after a full stop found past index 200 of its first
\* 280 characters and ends with that full stop.
C12_TruncatedEndsInEllipsisOrAtFullStop ==
    producedBy \in {"client", "handler"}
        => \A i \in 1..Len(evidenceOut) :
              Truncated(evidenceOut[i])
                  => \/ EndsWith(evidenceOut[i].snippet, "...")
                     \/ /\ producedBy = "handler"
                        /\ EndsWith(evidenceOut[i].snippet, ".")
                        /\ Len(evidenceOut[i].snippet) > handlerSnippetMinBreak + 1
                        /\ Len(evidenceOut[i].snippet) <= handlerSnippetCut

C12_Witness ==
    /\ producedBy = "handler"
    /\ \E i, j \in 1..Len(evidenceOut) :
          /\ Truncated(evidenceOut[i]) /\ ~EndsWith(evidenceOut[i].snippet, "...")
          /\ Truncated(evidenceOut[j]) /\ EndsWith(evidenceOut[j].snippet, "...")

\* C13: every evidence entry a result carries, whichever path made it, has a
\* snippet of at most 300 characters.
C13_EveryResultSnippetBounded ==
    producedBy = "proxy"
        => \A i \in 1..Len(evidenceOut) :
              Len(evidenceOut[i].snippet) <= handlerSnippetMaxLength

\* C14: every entry a formatter returns comes from a reference whose text or
\* context holds a query keyword; with no such reference the list is empty.
C14_OnlyRelevantEntries ==
    producedBy \in {"client", "handler"}
        => \A i \in 1..Len(evidenceOut) :
              \E j \in 1..Len(upstreamReferences) :
                  /\ evidenceOut[i] = EntryOf(upstreamReferences[j])
                  /\ IsRelevant(upstreamReferences[j], queryKeywords(query))

\* C15: a formatter returns at most 2 entries (the older one at most 3), and
\* with the cross-verification entry of the proxy the list has at most 3.
C15_AtMostThreeEntries ==
    /\ Len(evidenceOut) <= 3
    /\ producedBy \in {"client", "handler"} => Len(evidenceOut) <= 2

C15_Witness ==
    /\ producedBy = "proxy"
    /\ Len(upstreamReferences) = 3
    /\ Len(evidenceOut) = 3
    /\ Len(HandlerRelevantReferences(upstreamReferences, queryKeywords(query))) = 3

\* C16: the summary of every result is no longer than the bound of its
\* extractor: 120 characters in the client, 300 at most anywhere.
C16_SummaryWithinBound ==
    summaryOut # <<>>
        => Len(summaryOut[1])
              <= (IF producedBy = "client" THEN summaryMaxLength
                  ELSE handlerSnippetMaxLength)

HasDisagreementClause(text) ==
    \/ Includes(text, "Due to scholarly disagreement, it is safer to avoid this practice.")
    \/ Includes(text, "is debated among Islamic scholars with different opinions.")

\* C17: an answer that says "scholars differ" gets the verdict contradictory
\* and a summary that carries the clause on scholarly disagreement.
C17_DisagreementIsClarified ==
    (producedBy \in {"client", "handler"} /\ summaryOut # <<>>
     /\ Includes(ToLowerCase(answer), "scholars differ"))
        => (verdict = "contradictory" /\ HasDisagreementClause(summaryOut[1]))

(***************************************************************************)
(* Properties of the daily counter (checked under SpecCounter).            *)
(***************************************************************************)
CountsNeverNegative ==
    /\ count >= 0
    /\ \A i \in DOMAIN writes : writes[i].value >= 0
    /\ \A d \in Days : dailyCounts[d] # <<>> => dailyCounts[d][1] >= 0

DecrementCalled == counterCalls' = counterCalls + 1 /\ lastCall' = "decrement"

\* C18: the displayed count, every count under way to the store and every
\* count stored are at least 0 in every reachable state, whatever the order
\* of calls, reads and resolved or rejected writes; and a call of decrement
\* at count 0 leaves the count at 0 and issues no write.
C18_CountNeverNegative ==
    /\ []CountsNeverNegative
    /\ [][(DecrementCalled /\ count = 0)
            => (count' = 0 /\ writes' = writes /\ dailyCounts' = dailyCounts
                /\ localStorage' = localStorage)]_vars

\* the one call made was a decrement, at the count 0 the read of a day
\* without document left, and nothing was written
C18_Witness ==
    /\ signedIn
    /\ ~loading
    /\ counterCalls = 1
    /\ lastCall = "decrement"
    /\ count = 0
    /\ writes = <<>>
    /\ ~writeFailed
    /\ \A d \in Days : dailyCounts[d] = <<>>

\* C19: on a day that began without document and item, once the reads have
\* ended and the render is of that day, the count shown is the running sum
\* of the calls made that day (floor 0), also while writes are under way;
\* and once every write has landed the stored count is that sum.
C19_CountIsRunningSum ==
    (signedIn /\ freshDay /\ ~loading /\ loads = <<>> /\ today = clock /\ ~writeFailed)
        => /\ count = runningSum
           /\ (writes = <<>> /\ dailyCounts[clock] # <<>>)
                => dailyCounts[clock] = << runningSum >>

\* the writes under way for the day
WritesFor(day) == SelectSeq(writes, LAMBDA w : w.day = day)

\* the day of the clock is a later day than the first, the hook has rendered
\* and loaded it, and nothing is stored or about to be stored for it
NewDayWithoutCount ==
    /\ signedIn
    /\ clock > 1
    /\ today = clock
    /\ ~loading
    /\ loads = <<>>
    /\ dailyCounts[clock] = <<>>
    /\ localStorage[clock] = ""

\* C25: on a new day for which no count is stored and none is being written
\* the count shown is 0, and when the one call made on such a day is an
\* increment, the write it sends stores 1 under the new date.
C25_CounterResetsAtMidnight ==
    /\ (NewDayWithoutCount /\ WritesFor(clock) = <<>>) => count = 0
    /\ (/\ signedIn /\ clock > 1 /\ today = clock
        /\ dailyCounts[clock] = <<>>
        /\ runningSum = 1 /\ lastCall = "increment"
        /\ Len(WritesFor(clock)) = 1)
           => WritesFor(clock)[1].value = 1

\* the count Firestore holds for the day, 0 without a document
PersistedCount(day) == IF dailyCounts[day] = <<>> THEN 0 ELSE dailyCounts[day][1]

\* C27: on the day the hook was mounted, begun without document and item
\* (so that the count loaded is the count persisted, 0), when increment or
\* decrement has been called and no read and no write is under way any
\* more, the count shown is the count persisted for today, whichever writes
\* were rejected and in whichever order the calls and the outcomes of
\* their writes came.
C27_SettledCountIsPersisted ==
    (/\ signedIn
     /\ clock = 1 /\ today = clock /\ freshDay
     /\ lastCall \in { "increment", "decrement" }
     /\ ~loading /\ loads = <<>>
     /\ writes = <<>>)
        => count = PersistedCount(today)

(***************************************************************************)
(* Properties of the offline hook (checked under SpecSync).                *)
(***************************************************************************)
\* the connection is lost, the count was last changed without it and the
\* write of that change has been rejected
OfflineCountPending == ~online /\ changedOffline /\ writes = <<>>

Synchronised ==
    /\ online
    /\ dailyCounts[today] = << count >>
    /\ localStorage[today] = ""
    /\ ~pendingSync

\* C26: a count that could not be written while the connection is lost is
\* kept in the local item of the day, and once the connection is back it
\* is eventually the stored count, with the item removed and pendingSync
\* false.
C26_OfflineCountIsSynced ==
    /\ [](OfflineCountPending
             => pendingSync /\ localStorage[today] = NumberToString(count))
    /\ (OfflineCountPending ~> Synchronised)

(***************************************************************************)
(* Properties of the trend series (checked under SpecTrend).               *)
(***************************************************************************)
\* the count stored for the day, 0 without a document
StoredCount(docs, day) ==
    IF \E d \in docs : d.id = FormatDate(day)
    THEN (CHOOSE d \in docs : d.id = FormatDate(day)).count
    ELSE 0

\* series is the days consecutive calendar days ending on day, oldest first,
\* each with the count docs holds for it
ExactSeries(series, days, day, docs) ==
    /\ Len(series) = days
    /\ \A k \in 1..Len(series) :
           /\ series[k].date = FormatDate(day - (days - k))
           /\ series[k].count = StoredCount(docs, day - (days - k))

SeriesShown == trendUser /\ ~trendLoading /\ trendError = "" /\ answered # <<>>

\* C20: the series the hook shows for the selected period has exactly that
\* many entries, dated with the consecutive calendar days ending today in
\* increasing order, each carrying the stored count of its day or 0.
C20_TrendSeriesIsExact ==
    SeriesShown => ExactSeries(trendData, period, nowDay, history)

\* the series a read or snapshot produces is exact for the period, the day
\* and the documents of that read, when no midnight falls in its fill loop
SeriesExactForItsRequest ==
    (answered # <<>> /\ answered[1].crossing = 0)
        => ExactSeries(trendData, answered[1].period, answered[1].day, answered[1].docs)

\* a listener is subscribed although the effect that made it was cleaned up
LeakedListener ==
    \E i \in DOMAIN fetches : fetches[i].phase = "listening" /\ ~fetches[i].live

\* the data shown came from a request for the selected period
ShowsCurrentPeriod == answered # <<>> /\ answered[1].period = period

\* C28: once the data of the selected period is shown, no read and no
\* listener started for another period replaces it, and no listener stays
\* subscribed after the cleanup of its effect, also when the cleanup ran
\* before the listener was set up.
C28_TrendDataIsOfCurrentPeriod ==
    /\ []~LeakedListener
    /\ [][(ShowsCurrentPeriod /\ answered' # answered)
             => answered'[1].period = period']_vars

(***************************************************************************)
(* Properties of the Firestore rules (checked under SpecRules).            *)
(***************************************************************************)
UnderUsers == Len(request.path) >= 2 /\ request.path[1] = "users"
OnDailyCount ==
    Len(request.path) = 4 /\ request.path[1] = "users" /\ request.path[3] = "dailyCounts"

\* C21: a request on users/B or on any document below it, read or write, is
\* denied unless it comes from the authenticated user B.
C21_OnlyOwnerIsAllowed ==
    (decision # "none" /\ UnderUsers /\ request.auth # << request.path[2] >>)
        => decision = "deny"

\* an authenticated user is denied an update of another user's daily count
C21_Witness ==
    /\ decision = "deny"
    /\ request.auth = << "alice" >>
    /\ request.method = "update"
    /\ OnDailyCount
    /\ request.path[2] = "bob"
    /\ ValidDailyCount(request.data)

\* C22: every allowed create or update of a daily count document leaves a
\* document with the fields count and ts, count an integer >= 0.
C22_AllowedWritesAreValid ==
    (decision = "allow" /\ OnDailyCount /\ request.method \in { "create", "update" })
        => ValidDailyCount(request.data)

(***************************************************************************)
(* Properties of the service worker (checked under SpecWorker).            *)
(***************************************************************************)
IsVerification(r) == r.method = "POST" /\ r.url \in { ProxyUrl, ReminderUrl }

PersistentStores == <<localStorage, dailyCounts, writes, cacheStorage>>

VerificationReturns ==
    entry = "dashboard" /\ pc = "done" /\ settled = "resolved" /\ pc' = "idle"

\* C23: no step of a verification (typing the deed, sending it, the
\* providers' answers, showing the result) writes to a persistent store, and
\* the step in which a verification returns its result leaves the deed
\* input empty.
C23_QueryIsNeverStored ==
    [][/\ UNCHANGED PersistentStores
       /\ VerificationReturns => deedText' = ""]_vars

\* a verification of a typed deed has returned and its result is shown
C23_Witness ==
    /\ verifications = 1
    /\ verificationResult # <<>>
    /\ toast = "Deed verified successfully"
    /\ ~isVerifying
    /\ deedText = ""
    /\ writes = <<>>

(***************************************************************************)
(* Properties of the wait for the configuration (checked under SpecWait).  *)
(***************************************************************************)
\* C30: the wait is eventually resolved, whether the configuration appears
\* or not, after at most 100 timeouts of 50 ms, and after fewer on a local
\* host.
C30_WaitTerminates ==
    /\ <>(waitState = "resolved")
    /\ [](polls <= maxAttempts)
    /\ [](IsLocalHost(hostname) => polls < maxAttempts)

(***************************************************************************)
(* Properties of initializeFirebase (checked under SpecFirebase).          *)
(***************************************************************************)
NotRejected == { i \in DOMAIN promises : promises[i].state # "rejected" }

\* C29: at most one attempt is under way, at most one promise is pending or
\* resolved and at most one call of initializeApp belongs to it; the
\* memoized promise is never a rejected one and without a memoized promise
\* app, auth and db are null; every pair a promise resolved with or a caller
\* received has both auth and db, made for the same app.
C29_InitializationIsSingleFlight ==
    /\ Len(running) <= 1
    /\ Cardinality(NotRejected) <= 1
    /\ Cardinality({ k \in DOMAIN initLog : initLog[k] \in NotRejected }) <= 1
    /\ initializationPromise # 0 => initializationPromise \in NotRejected
    /\ initializationPromise = 0 => (app = 0 /\ auth = 0 /\ db = 0 /\ running = <<>>)
    /\ \A k \in DOMAIN received :
           received[k].state = "resolved"
               => /\ received[k].auth # 0
                  /\ received[k].db # 0
                  /\ received[k].auth = app /\ received[k].db = app
                  /\ received[k].promise = initializationPromise

\* a first attempt failed and was reset; two callers of the second attempt
\* received its one pair
C29_Witness ==
    /\ Len(promises) = 2
    /\ promises[1].state = "rejected"
    /\ \E j, k \in DOMAIN received :
           /\ j # k
           /\ received[j].promise = 2 /\ received[k].promise = 2
           /\ received[j].state = "resolved" /\ received[k].state = "resolved"
    /\ \E k \in DOMAIN received : received[k].state = "rejected"

====
